---- MODULE Spec2Model ----
(***************************************************************************)
(* Model of the quick-outline query engine: the query parser and the       *)
(* pattern tokenizer and matcher of search.ts, the outline tree of          *)
(* QuickSymbolOutlineItem / QuickLineItem and the session of QuickOutline. *)
(* A string is a sequence of one-character strings.                        *)
(***************************************************************************)
EXTENDS Integers, Sequences, FiniteSets, TLC

VARIABLES
  pc,             \* what the last completed step was
  inputStr,       \* the string handed to parseSearchCommand
  search,         \* the ISearch it returned (type "none" for null)
  line,           \* searchLine: the text of the line
  parsed,         \* searchLine: the token list
  matched,        \* searchLine: its outcome
  searchMethod,   \* QuickOutline._searchMethod: "symbol" or "text"
  kindOf,         \* the SymbolKind of every symbol of the forest
  cursorLine,     \* the line of the editor's selection start
  hidden,         \* QuickSymbolOutlineItem.hidden, per symbol
  expanded,       \* QuickSymbolOutlineItem.expanded, per symbol
  isSearchResult, \* QuickSymbolOutlineItem.isSearchResult, per symbol
  children,       \* QuickSymbolOutlineItem._children, per symbol
  lastSearch,     \* GlobalState: the last search string of each method
  value,          \* _quickPick.value
  items,          \* _quickPick.items
  active,         \* _quickPick.activeItems[0], 0 when there is none
  raised,         \* the exception the last handler raised, or "none"
  disposed,       \* QuickOutline._disposed
  released,       \* how often the session's pick list has been disposed of
  pending,        \* the host owes the change notification of a rewritten value
  context,        \* the host's context keys inQuickOutline, inQuickOutlineSearch
  quickOutline,   \* extension.ts: the latest symbol session, 0 for null
  quickOutlineForTextSearch, \* extension.ts: the latest text session, 0 for null
  sessions,       \* every QuickOutline constructed so far, in order
  retrieving,     \* per command, how many calls await the symbol provider
  hiding          \* the sessions whose hide notification the host owes

pureVars == <<inputStr, search, line, parsed, matched>>
treeVars == <<hidden, expanded, isSearchResult, children>>
sessionVars == <<searchMethod, kindOf, cursorLine>>
pickVars == <<lastSearch, value, items, active, raised>>
lifeVars == <<disposed, released>>
extensionVars ==
  <<context, quickOutline, quickOutlineForTextSearch, sessions, retrieving, hiding>>
hostVars == <<pending, extensionVars>>
outlineVars == <<sessionVars, treeVars, pickVars, lifeVars, hostVars>>

vars == <<pc, pureVars, outlineVars>>

\* -------------------------------------------------------------- bounds
\* Longest text typed after the sentinel in the parser specification.
MaxRest == 3

\* Longest search text and longest line in the matcher specification.
MaxSearchLen == 5

MaxLineLen == 2

\* Longest text given to the tokenizer in its own specification.
MaxTokenText == 4

\* The count of releases of a pick list stops here.
MaxReleases == 3

\* ------------------------------------------------------ string helpers
Min(S) == CHOOSE x \in S : \A y \in S : x <= y

\* Every string over alphabet A of length at most n.
StringsUpTo(A, n) == UNION {[1..k -> A] : k \in 0..n}

Tab == "\t"

\* What JavaScript's \s and String.prototype.trim treat as white space here.
IsSpace(c) == c \in {" ", Tab}

\* s.slice(k)
slice(s, k) == SubSeq(s, k + 1, Len(s))

trim(s) ==
  LET keep == {i \in 1..Len(s) : ~IsSpace(s[i])}
  IN IF keep = {} THEN <<>>
     ELSE SubSeq(s, Min(keep), CHOOSE j \in keep : \A k \in keep : k <= j)

\* hay.indexOf(needle): zero-based position of the first occurrence, or -1.
indexOf(hay, needle) ==
  LET at == {i \in 0..(Len(hay) - Len(needle)) :
                SubSeq(hay, i + 1, i + Len(needle)) = needle}
  IN IF at = {} THEN -1 ELSE Min(at)

includes(s, c) == \E i \in 1..Len(s) : s[i] = c

startsWith(s, p) == Len(s) >= Len(p) /\ SubSeq(s, 1, Len(p)) = p

UpperCase == {"A", "B", "I"}

toLowerChar(c) ==
  CASE c = "A" -> "a" [] c = "B" -> "b" [] c = "I" -> "i" [] OTHER -> c

toLowerCase(s) == [i \in 1..Len(s) |-> toLowerChar(s[i])]

\* s.split(" "): the fragments between single space characters, empty ones kept.
RECURSIVE split(_)
split(s) ==
  LET i == indexOf(s, <<" ">>)
  IN IF i = -1 THEN <<s>>
     ELSE <<SubSeq(s, 1, i)>> \o split(slice(s, i + 1))

SelectNonEmpty(fragments) == SelectSeq(fragments, LAMBDA f : f # <<>>)

\* ------------------------------------------------------------ search.ts
\* The symbol kinds the engine tells apart ("Variable" stands for every kind
\* no filter letter names).
SymbolKinds ==
  {"Function", "Method", "Class", "Property", "Struct", "Object", "Enum",
   "EnumMember", "Interface", "TypeParameter", "Variable"}

validFilterArgs == {"f", "c", "t"}

\* isCommandString without the seenFilterArgs check: a repeated letter passes.
isCommandString_NoSeenCheck(maybeCommandString) ==
  IF Len(maybeCommandString) <= 1 THEN FALSE
  ELSE LET maybeFilterArg == trim(slice(maybeCommandString, 1))
       IN \A i \in 1..Len(maybeFilterArg) : maybeFilterArg[i] \in validFilterArgs

isCommandString(maybeCommandString) ==
  IF Len(maybeCommandString) <= 1 THEN FALSE
  ELSE LET maybeFilterArg == trim(slice(maybeCommandString, 1))
       IN /\ \A i \in 1..Len(maybeFilterArg) : maybeFilterArg[i] \in validFilterArgs
          /\ \A i, j \in 1..Len(maybeFilterArg) :
               i < j => maybeFilterArg[i] # maybeFilterArg[j]

\* symbolKindsForCommandString with the Property of the letter c forgotten.
symbolKindsForCommandString_NoProperty(commandString) ==
  (IF includes(commandString, "f") THEN {"Function", "Method"} ELSE {})
  \cup (IF includes(commandString, "c") THEN {"Class"} ELSE {})
  \cup (IF includes(commandString, "t")
        THEN {"Enum", "EnumMember", "Struct", "Class", "Interface", "TypeParameter"}
        ELSE {})

symbolKindsForCommandString(commandString) ==
  (IF includes(commandString, "f") THEN {"Function", "Method"} ELSE {})
  \cup (IF includes(commandString, "c") THEN {"Class", "Property"} ELSE {})
  \cup (IF includes(commandString, "t")
        THEN {"Enum", "EnumMember", "Struct", "Class", "Interface", "TypeParameter"}
        ELSE {})

\* The map callback of parseSearchString testing isRegex on the fragment as
\* typed: a negated regex is taken for a substring.
parseSubSearch_NoNegatedRegex(subSearch) ==
  LET isNegate == startsWith(subSearch, <<"!">>)
  IN [pattern       |-> IF isNegate THEN slice(subSearch, 1) ELSE subSearch,
      isRegex       |-> startsWith(subSearch, <<"/">>),
      caseSensitive |-> \E i \in 1..Len(subSearch) : subSearch[i] \in UpperCase,
      negate        |-> isNegate]

\* One fragment of the search text as an IParsedSearchString.
parseSubSearch(subSearch) ==
  LET isNegate == startsWith(subSearch, <<"!">>)
  IN [pattern       |-> IF isNegate THEN slice(subSearch, 1) ELSE subSearch,
      isRegex       |-> IF isNegate THEN startsWith(subSearch, <<"!", "/">>)
                        ELSE startsWith(subSearch, <<"/">>),
      caseSensitive |-> \E i \in 1..Len(subSearch) : subSearch[i] \in UpperCase,
      negate        |-> isNegate]

parseSearchString(searchStr) ==
  IF Len(trim(searchStr)) = 0 THEN <<>>
  ELSE LET fragments == split(searchStr)
           trimmed   == [i \in 1..Len(fragments) |-> trim(fragments[i])]
           kept      == SelectNonEmpty(trimmed)
       IN [i \in 1..Len(kept) |-> parseSubSearch(kept[i])]

\* inputStr.match(/(#\S+)\s+(.+)/) tried at position i (one-based): the two
\* groups, or <<>> when the pattern does not match there.  \S+ takes the whole
\* run of non-space characters, \s+ the whole run of white space after it, and
\* gives its last character back to (.+) when nothing else is left for it.
groupsAt(s, i) ==
  IF ~(i < Len(s) /\ s[i] = "#" /\ ~IsSpace(s[i + 1])) THEN <<>>
  ELSE LET e == CHOOSE k \in (i + 1)..Len(s) :
                   /\ \A j \in (i + 1)..k : ~IsSpace(s[j])
                   /\ (k = Len(s) \/ IsSpace(s[k + 1]))
       IN IF e = Len(s) THEN <<>>
          ELSE LET w == CHOOSE k \in (e + 1)..Len(s) :
                           /\ \A j \in (e + 1)..k : IsSpace(s[j])
                           /\ (k = Len(s) \/ ~IsSpace(s[k + 1]))
               IN IF w < Len(s)
                  THEN <<SubSeq(s, i, e), SubSeq(s, w + 1, Len(s))>>
                  ELSE IF w >= e + 2
                  THEN <<SubSeq(s, i, e), <<s[w]>> >>
                  ELSE <<>>

\* The leftmost match of the unanchored pattern.
matchGroups(s) ==
  LET at == {i \in 1..Len(s) : groupsAt(s, i) # <<>>}
  IN IF at = {} THEN <<>> ELSE groupsAt(s, Min(at))

NoSearch == [type |-> "none"]

parseSearchCommand(str) ==
  LET groups == matchGroups(str)
  IN IF groups = <<>>
     THEN IF Len(str) <= 1 THEN NoSearch
          ELSE IF isCommandString(str)
          THEN [type |-> "filter", filter |-> symbolKindsForCommandString(str)]
          ELSE [type |-> "simple", search |-> parseSearchString(slice(str, 1))]
     ELSE [type   |-> "filter-search",
           filter |-> symbolKindsForCommandString(groups[1]),
           search |-> parseSearchString(groups[2])]


\* The native regular expressions, as far as the characters of the model reach:
\* "(" is the one character with a meaning of its own (an unclosed group), every
\* other character stands for itself.  new RegExp(body, flags) throws a
\* SyntaxError for an unclosed group and for a flag given twice.
regExpRejects(body, flags) ==
  \/ includes(body, "(")
  \/ \E i, j \in 1..Len(flags) : i < j /\ flags[i] = flags[j]

\* regex.exec(line) with the flags of the token ignored.
regExpExec_IgnoreFlags(body, flags, text) ==
  LET at == {i \in 0..(Len(text) - Len(body)) : SubSeq(text, i + 1, i + Len(body)) = body}
  IN IF at = {} THEN -1 ELSE Min(at)

\* regex.exec(line) of a fresh new RegExp(body, flags): the index of the first
\* match, or -1.  The flag i ignores case, the flag y matches at index 0 only.
regExpExec(body, flags, text) ==
  LET fold(t) == IF includes(flags, "i") THEN toLowerCase(t) ELSE t
      at == {i \in 0..(Len(text) - Len(body)) :
               /\ SubSeq(fold(text), i + 1, i + Len(body)) = fold(body)
               /\ includes(flags, "y") => i = 0}
  IN IF at = {} THEN -1 ELSE Min(at)

\* p.pattern.match(new RegExp('^/(.*?)/([gimy]*)$')): <<body, flags>>, or <<>>
\* when the pattern has no closing delimiter followed by flags only.
splitRegex(pattern) ==
  LET close == {k \in 2..Len(pattern) :
                  /\ pattern[k] = "/"
                  /\ \A j \in (k + 1)..Len(pattern) : pattern[j] \in {"g", "i", "m", "y"}}
  IN IF pattern = <<>> \/ pattern[1] # "/" \/ close = {} THEN <<>>
     ELSE <<SubSeq(pattern, 2, Min(close) - 1),
            SubSeq(pattern, Min(close) + 1, Len(pattern))>>

\* The outcomes of searchLine: null, an IMatchedRange, or the SyntaxError of
\* new RegExp leaving the function.
Null == [kind |-> "null"]
Thrown == [kind |-> "throw"]
MatchedRange(lineIndex, ranges) ==
  [kind |-> "match", line |-> lineIndex, ranges |-> ranges]

\* line 183 with the lower-casing of the line forgotten.
substringIndex_NoLowerCase(p, text) == indexOf(text, p.pattern)

\* line 183
substringIndex(p, text) ==
  IF p.caseSensitive THEN indexOf(text, p.pattern)
  ELSE indexOf(toLowerCase(text), p.pattern)

\* The loop of searchLine from token i on, ranges being those pushed so far.
RECURSIVE searchLineFrom(_, _, _, _, _)
searchLineFrom(lineIndex, text, tokens, i, ranges) ==
  IF i > Len(tokens) THEN MatchedRange(lineIndex, ranges)
  ELSE
    LET p == tokens[i] IN
    IF p.isRegex
    THEN LET parts == splitRegex(p.pattern) IN
         IF parts = <<>> THEN Null
         ELSE IF regExpRejects(parts[1], parts[2]) THEN Thrown
         ELSE LET m == regExpExec(parts[1], parts[2], text) IN
              IF m = -1 /\ ~p.negate THEN Null
              ELSE IF m # -1 /\ p.negate THEN Null
              ELSE IF m = -1 /\ p.negate
              THEN searchLineFrom(lineIndex, text, tokens, i + 1, ranges)
              ELSE searchLineFrom(lineIndex, text, tokens, i + 1,
                                  Append(ranges, <<m, Len(parts[1])>>))
    ELSE LET m == substringIndex(p, text) IN
         IF p.negate
         THEN IF m # -1 THEN Null
              ELSE searchLineFrom(lineIndex, text, tokens, i + 1, ranges)
         ELSE IF m = -1 THEN Null
              ELSE searchLineFrom(lineIndex, text, tokens, i + 1,
                                  Append(ranges, <<m, Len(p.pattern)>>))

searchLine(lineIndex, text, tokens) == searchLineFrom(lineIndex, text, tokens, 1, <<>>)

\* searchDocument over the lines of a document (line 0 first): the matches it
\* pushes, or the SyntaxError of a call of searchLine leaving it.
searchDocument(lines, tokens) ==
  LET outcomes == [i \in 1..Len(lines) |-> searchLine(i - 1, lines[i], tokens)]
  IN IF \E i \in 1..Len(lines) : outcomes[i] = Thrown THEN Thrown
     ELSE [kind |-> "items", items |-> SelectSeq(outcomes, LAMBDA m : m # Null)]


\* ------------------------------------------------ the outline of a session
\* The document of the editor, line 0 first.
Doc ==
  << <<"b">>,
     <<"a", "{", "b">>,
     <<"a", "b">>,
     <<"c", "{">>,
     <<"b">>,
     <<"a", "b">>,
     <<"b", "}", "x">>,
     <<"}">>,
     <<"A", "b">> >>

lineCount == Len(Doc)

\* document.lineAt(i).text
lineAt(i) == Doc[i + 1]

\* The forest of the symbol provider, in the order the provider returns it
\* (parent 0: a root).  Symbol 2 spans lines 1 to 8 and holds symbol 4 (on its
\* own first line) and symbol 3 (lines 3 to 6, ending before the end of line 6),
\* which holds symbol 5 (line 4); symbol 1 is line 8, a root of its own inside
\* the range of root 2, as in the flat list of a provider that reports
\* containers by range only; line 0 lies in no symbol.
Symbols ==
  << [name |-> <<"A", "b">>, parent |-> 0,
      start |-> [line |-> 8, character |-> 0], end |-> [line |-> 8, character |-> 2]],
     [name |-> <<"a">>, parent |-> 0,
      start |-> [line |-> 1, character |-> 0], end |-> [line |-> 8, character |-> 2]],
     [name |-> <<"c">>, parent |-> 2,
      start |-> [line |-> 3, character |-> 0], end |-> [line |-> 6, character |-> 2]],
     [name |-> <<"b">>, parent |-> 2,
      start |-> [line |-> 1, character |-> 2], end |-> [line |-> 1, character |-> 3]],
     [name |-> <<"b">>, parent |-> 3,
      start |-> [line |-> 4, character |-> 0], end |-> [line |-> 4, character |-> 1]] >>

SymbolIds == 1..Len(Symbols)

\* A Match leaf (QuickLineItem) is named by its parent and its line (both set
\* by its constructor); the items of the tree are the symbols and the leaves.
LeafId(p, ln) == Len(Symbols) + ln * Len(Symbols) + p
IsLeaf(item) == item > Len(Symbols)
LeafLine(item) == (item - Len(Symbols) - 1) \div Len(Symbols)
LeafParent(item) == ((item - Len(Symbols) - 1) % Len(Symbols)) + 1

lineStart(n) == Symbols[n].start.line

\* item.parent (0 for null)
parentOf(item) == IF IsLeaf(item) THEN LeafParent(item) ELSE Symbols[item].parent

\* Array.prototype.sort by start line (stable): insertion of each element after
\* the elements that do not start later.
RECURSIVE sortByLineStart(_)
sortByLineStart(list) ==
  IF list = <<>> THEN <<>>
  ELSE LET sorted == sortByLineStart(SubSeq(list, 1, Len(list) - 1))
           x == list[Len(list)]
           before == SelectSeq(sorted, LAMBDA y : lineStart(y) <= lineStart(x))
           after == SelectSeq(sorted, LAMBDA y : lineStart(y) > lineStart(x))
       IN before \o <<x>> \o after

providerChildren(p) ==
  SelectSeq([i \in 1..Len(Symbols) |-> i], LAMBDA n : Symbols[n].parent = p)

\* QuickOutline._rootItems
_rootItems == sortByLineStart(providerChildren(0))

\* The tree as a record of its four fields.
Tree(h, e, r, ch) == [hidden |-> h, expanded |-> e, isSearchResult |-> r, children |-> ch]

tree == Tree(hidden, expanded, isSearchResult, children)

\* The tree the constructors build.
newTree ==
  Tree([n \in SymbolIds |-> FALSE], [n \in SymbolIds |-> FALSE],
       [n \in SymbolIds |-> FALSE],
       [n \in SymbolIds |-> sortByLineStart(providerChildren(n))])

\* allNestedChildren of a list of items: each item followed by its descendants.
RECURSIVE nested(_, _)
nested(ch, list) ==
  IF list = <<>> THEN <<>>
  ELSE <<Head(list)>>
       \o (IF IsLeaf(Head(list)) THEN <<>> ELSE nested(ch, ch[Head(list)]))
       \o nested(ch, Tail(list))

allNestedChildren(ch, item) == IF IsLeaf(item) THEN <<>> ELSE nested(ch, ch[item])

\* QuickOutline.items()
allItems(ch) == nested(ch, _rootItems)

\* QuickOutline.symbolItems()
symbolItems(ch) == SelectSeq(allItems(ch), LAMBDA item : ~IsLeaf(item))

\* forEachParent: every ancestor of an item.
RECURSIVE ancestors(_)
ancestors(item) ==
  LET p == parentOf(item)
  IN IF p = 0 THEN {} ELSE {p} \cup ancestors(p)

\* Position.isBeforeOrEqual
isBeforeOrEqual(a, b) ==
  a.line < b.line \/ (a.line = b.line /\ a.character <= b.character)

\* this.location.range.contains(line.range), line.range being the whole line ln
contains(n, ln) ==
  /\ isBeforeOrEqual(Symbols[n].start, [line |-> ln, character |-> 0])
  /\ isBeforeOrEqual([line |-> ln, character |-> Len(lineAt(ln))], Symbols[n].end)

\* The filter argument of insertLineIfParent: null, or a set of kinds.
NoFilter == [isNull |-> TRUE, kinds |-> {}]
KindSet(kinds) == [isNull |-> FALSE, kinds |-> kinds]

\* insertLineIfParent that flags the symbol starting on the line and still goes
\* on to offer the line to its children.
RECURSIVE insertLineIfParent_NoStop(_, _, _, _)
insertLineIfParent_NoStop(t, n, ln, filter) ==
  IF IsLeaf(n) THEN [ok |-> FALSE, tree |-> t]
  ELSE
    LET passesFilter == filter.isNull \/ kindOf[n] \in filter.kinds
        own == passesFilter /\ ln = lineStart(n)
        from == IF own THEN [t EXCEPT !.hidden[n] = FALSE, !.isSearchResult[n] = TRUE]
                ELSE t
        kids == from.children[n]
        tried == [i \in 1..Len(kids) |-> insertLineIfParent_NoStop(from, kids[i], ln, filter)]
        took == {i \in 1..Len(kids) : tried[i].ok}
    IN IF took # {}
       THEN [ok |-> TRUE,
             tree |-> [tried[Min(took)].tree EXCEPT !.expanded[n] = TRUE,
                                                    !.hidden[n] = FALSE]]
       ELSE IF own THEN [ok |-> TRUE, tree |-> from]
       ELSE IF passesFilter /\ contains(n, ln)
       THEN [ok |-> TRUE,
             tree |-> [t EXCEPT !.expanded[n] = TRUE, !.hidden[n] = FALSE,
                                !.children[n] = Append(@, LeafId(n, ln))]]
       ELSE [ok |-> FALSE, tree |-> t]

\* insertLineIfParent on item n for the match of line ln: whether it inserted,
\* and the tree it leaves.
RECURSIVE insertLineIfParent(_, _, _, _)
insertLineIfParent(t, n, ln, filter) ==
  IF IsLeaf(n) THEN [ok |-> FALSE, tree |-> t]
  ELSE
    LET passesFilter == filter.isNull \/ kindOf[n] \in filter.kinds IN
    IF passesFilter /\ ln = lineStart(n)
    THEN [ok |-> TRUE,
          tree |-> [t EXCEPT !.hidden[n] = FALSE, !.isSearchResult[n] = TRUE]]
    ELSE
      LET kids == t.children[n]
          tried == [i \in 1..Len(kids) |-> insertLineIfParent(t, kids[i], ln, filter)]
          took == {i \in 1..Len(kids) : tried[i].ok}
      IN IF took # {}
         THEN [ok |-> TRUE,
               tree |-> [tried[Min(took)].tree EXCEPT !.expanded[n] = TRUE,
                                                      !.hidden[n] = FALSE]]
         ELSE IF passesFilter /\ contains(n, ln)
         THEN [ok |-> TRUE,
               tree |-> [t EXCEPT !.expanded[n] = TRUE, !.hidden[n] = FALSE,
                                  !.children[n] = Append(@, LeafId(n, ln))]]
         ELSE [ok |-> FALSE, tree |-> t]

\* _hideAllItems without the call of clearLineChildren that drops the leaves.
_hideAllItems_KeepLeaves(t) ==
  Tree([n \in SymbolIds |-> TRUE], [n \in SymbolIds |-> FALSE],
       [n \in SymbolIds |-> FALSE], t.children)

\* _hideAllItems with a clearLineChildren that leaves isSearchResult as it was.
_hideAllItems_KeepFlags(t) ==
  Tree([n \in SymbolIds |-> TRUE], [n \in SymbolIds |-> FALSE],
       t.isSearchResult,
       [n \in SymbolIds |-> SelectSeq(t.children[n], LAMBDA c : ~IsLeaf(c))])

\* _hideAllItems leaving the hidden flags as they were.
_hideAllItems_KeepHidden(t) ==
  Tree(t.hidden, [n \in SymbolIds |-> FALSE],
       [n \in SymbolIds |-> FALSE],
       [n \in SymbolIds |-> SelectSeq(t.children[n], LAMBDA c : ~IsLeaf(c))])

\* _hideAllItems leaving the expanded flags as they were.
_hideAllItems_KeepExpanded(t) ==
  Tree([n \in SymbolIds |-> TRUE], t.expanded,
       [n \in SymbolIds |-> FALSE],
       [n \in SymbolIds |-> SelectSeq(t.children[n], LAMBDA c : ~IsLeaf(c))])

\* clearLineChildren on every item, with the flags of _hideAllItems.
_hideAllItems(t) ==
  Tree([n \in SymbolIds |-> TRUE], [n \in SymbolIds |-> FALSE],
       [n \in SymbolIds |-> FALSE],
       [n \in SymbolIds |-> SelectSeq(t.children[n], LAMBDA c : ~IsLeaf(c))])

\* _searchNone leaving the expanded flags as they were.
_searchNone_KeepExpanded(t) ==
  Tree([n \in SymbolIds |-> FALSE], t.expanded,
       [n \in SymbolIds |-> FALSE],
       [n \in SymbolIds |-> SelectSeq(t.children[n], LAMBDA c : ~IsLeaf(c))])

_searchNone(t) ==
  Tree([n \in SymbolIds |-> FALSE], [n \in SymbolIds |-> FALSE],
       [n \in SymbolIds |-> FALSE],
       [n \in SymbolIds |-> SelectSeq(t.children[n], LAMBDA c : ~IsLeaf(c))])

\* The outcomes of searchLine over a list of <<lineIndex, text>> pairs, in order.
searchAll(pairs, tokens) ==
  [i \in 1..Len(pairs) |-> searchLine(pairs[i][1], pairs[i][2], tokens)]

\* _getSearchResults: the lines of the matches in order, or Thrown when one call
\* of searchLine throws.
_getSearchResults(t, tokens) ==
  LET pairs == IF searchMethod = "text"
               THEN [i \in 1..lineCount |-> <<i - 1, lineAt(i - 1)>>]
               ELSE LET syms == symbolItems(t.children)
                    IN [i \in 1..Len(syms) |-> <<lineStart(syms[i]), Symbols[syms[i]].name>>]
      outcomes == searchAll(pairs, tokens)
      hits == SelectSeq(outcomes, LAMBDA m : m # Null)
  IN IF \E i \in 1..Len(outcomes) : outcomes[i] = Thrown THEN Thrown
     ELSE [kind |-> "results", lines |-> [i \in 1..Len(hits) |-> hits[i].line]]

\* One match offered to every root in turn.
RECURSIVE insertInRoots(_, _, _, _)
insertInRoots(t, roots, ln, filter) ==
  IF roots = <<>> THEN t
  ELSE insertInRoots(insertLineIfParent(t, Head(roots), ln, filter).tree,
                     Tail(roots), ln, filter)

\* The two nested loops of _searchSimple and of the text branch of _filterSearch.
RECURSIVE insertMatches(_, _, _)
insertMatches(t, lines, filter) ==
  IF lines = <<>> THEN t
  ELSE insertMatches(insertInRoots(t, _rootItems, Head(lines), filter),
                     Tail(lines), filter)

_searchSimple(t, lines) == insertMatches(t, lines, NoFilter)

\* The loop body of _filter and _filterSearch unhiding the parents of a chosen
\* symbol without expanding them.
reveal_NoExpand(t, chosen) ==
  LET up == UNION {ancestors(n) : n \in chosen}
  IN [t EXCEPT !.hidden = [n \in SymbolIds |-> IF n \in chosen \cup up THEN FALSE ELSE @[n]],
               !.isSearchResult = [n \in SymbolIds |-> IF n \in chosen THEN TRUE ELSE @[n]]]

\* The loop body of _filter and _filterSearch on the symbols in chosen.
reveal(t, chosen) ==
  LET up == UNION {ancestors(n) : n \in chosen}
  IN [t EXCEPT !.hidden = [n \in SymbolIds |-> IF n \in chosen \cup up THEN FALSE ELSE @[n]],
               !.isSearchResult = [n \in SymbolIds |-> IF n \in chosen THEN TRUE ELSE @[n]],
               !.expanded = [n \in SymbolIds |-> IF n \in up THEN TRUE ELSE @[n]]]

\* _filter without the forEachParent call: the ancestors stay as they were.
_filter_NoParents(t, kinds) ==
  IF searchMethod = "symbol"
  THEN LET chosen == {n \in SymbolIds : kindOf[n] \in kinds}
       IN [t EXCEPT !.hidden = [n \in SymbolIds |-> IF n \in chosen THEN FALSE ELSE @[n]],
                    !.isSearchResult = [n \in SymbolIds |-> IF n \in chosen THEN TRUE ELSE @[n]]]
  ELSE t

_filter(t, kinds) ==
  IF searchMethod = "symbol"
  THEN reveal(t, {n \in SymbolIds : kindOf[n] \in kinds})
  ELSE t

\* _filterSearch without the hitLines test in the symbol branch.
_filterSearch_AnyLine(t, kinds, lines) ==
  IF searchMethod = "text"
  THEN insertMatches(t, lines, KindSet(kinds))
  ELSE reveal(t, {n \in SymbolIds : kindOf[n] \in kinds})

\* _filterSearch passing no filter on to insertLineIfParent in the text branch.
_filterSearch_AnyKind(t, kinds, lines) ==
  LET hitLines == {lines[i] : i \in 1..Len(lines)}
  IN IF searchMethod = "text"
     THEN insertMatches(t, lines, NoFilter)
     ELSE reveal(t, {n \in SymbolIds : kindOf[n] \in kinds /\ lineStart(n) \in hitLines})

_filterSearch(t, kinds, lines) ==
  LET hitLines == {lines[i] : i \in 1..Len(lines)}
  IN IF searchMethod = "text"
     THEN insertMatches(t, lines, KindSet(kinds))
     ELSE reveal(t, {n \in SymbolIds : kindOf[n] \in kinds /\ lineStart(n) \in hitLines})

\* _extractExpandedItems leaving out a hidden item but not what is below it.
RECURSIVE _extractExpandedItems_HidesItemOnly(_, _)
_extractExpandedItems_HidesItemOnly(t, list) ==
  IF list = <<>> THEN <<>>
  ELSE LET item == Head(list)
           rest == _extractExpandedItems_HidesItemOnly(t, Tail(list))
       IN IF IsLeaf(item) THEN <<item>> \o rest
          ELSE (IF t.hidden[item] THEN <<>> ELSE <<item>>)
               \o (IF t.expanded[item]
                   THEN _extractExpandedItems_HidesItemOnly(t, t.children[item])
                   ELSE <<>>)
               \o rest

\* _extractExpandedItems
RECURSIVE _extractExpandedItems(_, _)
_extractExpandedItems(t, list) ==
  IF list = <<>> THEN <<>>
  ELSE LET item == Head(list)
           rest == _extractExpandedItems(t, Tail(list))
       IN IF IsLeaf(item) THEN <<item>> \o rest
          ELSE IF t.hidden[item] THEN rest
          ELSE <<item>>
               \o (IF t.expanded[item] THEN _extractExpandedItems(t, t.children[item])
                   ELSE <<>>)
               \o rest

flattenVisible(t) == _extractExpandedItems(t, _rootItems)


\* The part of line ln that lies inside the range of symbol n.
rangeText(n, ln) ==
  SubSeq(lineAt(ln),
         (IF ln = Symbols[n].start.line THEN Symbols[n].start.character ELSE 0) + 1,
         IF ln = Symbols[n].end.line THEN Symbols[n].end.character ELSE Len(lineAt(ln)))

\* getNameRange(document).start.line: the line of the first occurrence of the
\* name in the text of the range; indexOf's -1 gives the offset just before the
\* range.
nameLine(n) ==
  LET found == {ln \in Symbols[n].start.line..Symbols[n].end.line :
                  indexOf(rangeText(n, ln), Symbols[n].name) # -1}
  IN IF found # {} THEN Min(found)
     ELSE IF Symbols[n].start.character > 0 \/ Symbols[n].start.line = 0
     THEN Symbols[n].start.line
     ELSE Symbols[n].start.line - 1

abs(x) == IF x < 0 THEN -x ELSE x

\* _getClosestItem keeping the first of the items at the least distance.
_getClosestItem_KeepFirst(t, list, searchStr) ==
  LET hasSelection == Len(searchStr) > 0
      lineOf(item) == IF IsLeaf(item) THEN LeafLine(item) ELSE nameLine(item)
      dist(i) == abs(cursorLine - lineOf(list[i]))
      scanned == {i \in 1..Len(list) :
                    /\ ~IsLeaf(list[i]) /\ ~t.hidden[list[i]]
                    /\ hasSelection => t.isSearchResult[list[i]]}
      nearest == {i \in scanned : \A j \in scanned : dist(i) <= dist(j)}
  IN IF scanned = {} THEN 0 ELSE list[Min(nearest)]

\* The loop of _getClosestItem from the i-th item on (0 for null; the distance
\* is read only once an item is held).  A QuickLineItem has no isSearchResult
\* field, and its hidden field stays false.
RECURSIVE closestFrom(_, _, _, _, _, _)
closestFrom(t, list, hasSelection, i, closestItem, closestLineDist) ==
  IF i > Len(list) THEN closestItem
  ELSE
    LET item == list[i]
        isResult == ~IsLeaf(item) /\ t.isSearchResult[item]
        isHidden == ~IsLeaf(item) /\ t.hidden[item]
        lineDist == abs(cursorLine - (IF IsLeaf(item) THEN LeafLine(item)
                                                     ELSE nameLine(item)))
    IN IF hasSelection /\ ~isResult
       THEN closestFrom(t, list, hasSelection, i + 1, closestItem, closestLineDist)
       ELSE IF isHidden
       THEN closestFrom(t, list, hasSelection, i + 1, closestItem, closestLineDist)
       ELSE IF closestItem = 0
       THEN closestFrom(t, list, hasSelection, i + 1, item, lineDist)
       ELSE IF lineDist <= closestLineDist
       THEN closestFrom(t, list, hasSelection, i + 1, item, lineDist)
       ELSE closestFrom(t, list, hasSelection, i + 1, closestItem, closestLineDist)

\* _getClosestItem over a list of items, searchStr being the search string of
\* GlobalState for this method; 0 for null.
_getClosestItem(t, list, searchStr) ==
  closestFrom(t, list, Len(searchStr) > 0, 1, 0, 0)

\* _search from the call of parseSearchCommand on: the tree it leaves and
\* whether _getSearchResults threw.
_search(t, searchStr) ==
  LET s == parseSearchCommand(searchStr) IN
  IF s.type = "none"
  THEN [threw |-> FALSE,
        tree |-> IF searchMethod = "text" THEN _hideAllItems(t) ELSE _searchNone(t)]
  ELSE
    LET cleared == _hideAllItems(t) IN
    IF s.type = "filter"
    THEN [threw |-> FALSE, tree |-> _filter(cleared, s.filter)]
    ELSE
      LET results == _getSearchResults(cleared, s.search) IN
      IF results.kind = "throw" THEN [threw |-> TRUE, tree |-> cleared]
      ELSE IF s.type = "simple"
      THEN [threw |-> FALSE, tree |-> _searchSimple(cleared, results.lines)]
      ELSE [threw |-> FALSE, tree |-> _filterSearch(cleared, s.filter, results.lines)]

\* Array.prototype.indexOf on a list of items (zero-based, -1 when absent).
itemIndexOf(list, item) ==
  LET at == {i \in 1..Len(list) : list[i] = item}
  IN IF at = {} THEN -1 ELSE Min(at) - 1

\* list[k] of a JavaScript array (zero-based), 0 for undefined.
itemAt(list, k) == IF k >= 0 /\ k < Len(list) THEN list[k + 1] ELSE 0

inList(list, item) == \E i \in 1..Len(list) : list[i] = item

\* The outcome variable of searchLine before any call.
Idle == [pc |-> "idle"]

\* ------------------------------------------ specification of the session
\* The kinds the symbols of the forest take: one that only the letter c and the
\* letter t select, one that only f selects, one that only t selects.
KindChoices == {"Class", "Function", "Enum"}

\* The kinds of the forest: the chain of symbols 2, 3 and 5 takes the three
\* kinds in every order, symbol 1 is a function and symbol 4 a class.
KindAssignments ==
  {k \in [SymbolIds -> KindChoices] :
     k[1] = "Function" /\ k[4] = "Class" /\ {k[2], k[3], k[5]} = KindChoices}

CursorLines == {0, 5}

\* The texts typed into the query field.
Queries ==
  { <<>>, <<"#">>, <<"b">>, <<"#", "b">>, <<"#", "a">>, <<"#", "A">>,
    <<"#", "!", "b">>, <<"#", "x", "y">>,
    <<"#", "t">>, <<"#", "f">>, <<"#", "c", "f">>,
    <<"#", "t", " ", "b">>, <<"#", "f", " ", "b">>, <<"#", "c", " ", "a">>,
    <<"#", "a", " ", "b">>, <<"a", " ", "b">>, <<"f">>,
    <<"#", "/", "b", "/">>, <<"#", "/", "(", "/">> }

\* The module state of extension.ts on activation; the specifications of one
\* session, of the parser and of the matcher leave it there.
NoExtension ==
  /\ context = [inQuickOutline |-> FALSE, inQuickOutlineSearch |-> FALSE]
  /\ quickOutline = 0
  /\ quickOutlineForTextSearch = 0
  /\ sessions = <<>>
  /\ retrieving = [symbol |-> 0, text |-> 0]
  /\ hiding = {}

\* Array.from(this.items()) in the constructor
constructedItems == allItems(newTree.children)

\* The constructor of QuickOutline in a process whose GlobalState holds the
\* search strings strs: the query field takes the string of the method, and
\* the item closest to the cursor, if there is one, is made visible and active.
Constructed(strs) ==
  /\ pc = "constructed"
  /\ inputStr = <<>> /\ search = NoSearch
  /\ line = <<>> /\ parsed = <<>> /\ matched = Idle
  /\ searchMethod \in {"symbol", "text"}
  /\ kindOf \in KindAssignments
  /\ cursorLine \in CursorLines
  /\ lastSearch = strs
  /\ value = strs[searchMethod]
  /\ raised = "none"
  /\ disposed = FALSE
  /\ released = 0
  /\ pending = FALSE
  /\ NoExtension
  /\ \E closestItem \in {_getClosestItem(newTree, constructedItems, strs[searchMethod])} :
       \E built \in {[newTree EXCEPT
                        !.expanded = [n \in SymbolIds |->
                                        closestItem # 0 /\ n \in ancestors(closestItem)]]} :
         /\ hidden = built.hidden
         /\ expanded = built.expanded
         /\ isSearchResult = built.isSearchResult
         /\ children = built.children
         /\ items = flattenVisible(built)
         /\ active = closestItem

\* The first session of a process: GlobalState holds two empty strings.
Init == Constructed([symbol |-> <<>>, text |-> <<>>])

\* GlobalState.setSearchStr writing the strings of both methods.
setSearchStr_Both(searchStr, method) == [m \in DOMAIN lastSearch |-> searchStr]

\* GlobalState.setSearchStr
setSearchStr(searchStr, method) == [lastSearch EXCEPT ![method] = searchStr]

\* The test of _search for a text that lacks the sentinel, taking every text
\* that is not empty to lack it.
needsSentinel_Always(searchStr) == Len(searchStr) # 0

\* The test of _search for a text that lacks the sentinel.
needsSentinel(searchStr) == Len(searchStr) # 0 /\ searchStr[1] # "#"

\* onDidChangeValue(v): _search, _updateItems, _getClosestItem and
\* _updateActiveItem inside the handler's try block.
onDidChangeValue(v) ==
  /\ ~disposed
  /\ \E searchStr \in {IF needsSentinel(v) THEN <<"#">> \o v ELSE v} :
     \E out \in {_search(tree, searchStr)} :
     \E list \in {flattenVisible(out.tree)} :
     \E closestItem \in {_getClosestItem(out.tree, list, searchStr)} :
        /\ pc' = "search"
        /\ inputStr' = searchStr
        /\ search' = parseSearchCommand(searchStr)
        /\ value' = searchStr
        /\ lastSearch' = setSearchStr(searchStr, searchMethod)
        /\ hidden' = out.tree.hidden
        /\ expanded' = out.tree.expanded
        /\ isSearchResult' = out.tree.isSearchResult
        /\ children' = out.tree.children
        /\ IF out.threw
           THEN /\ raised' = "SyntaxError"
                /\ UNCHANGED <<items, active>>
           ELSE /\ raised' = "none"
                /\ items' = list
                /\ active' = IF closestItem # 0 THEN closestItem ELSE active
        /\ UNCHANGED <<line, parsed, matched, sessionVars, lifeVars>>

\* The host delivers a change notification with the text v; which notification
\* a rewrite of the value makes it owe is not followed here.
ChangeValue(v) == onDidChangeValue(v) /\ UNCHANGED hostVars

\* The user moves the selection to the i-th item of the pick list.
ChangeActive(i) ==
  /\ ~disposed
  /\ i \in 1..Len(items)
  /\ active' = items[i]
  /\ pc' = "active"
  /\ raised' = "none"
  /\ UNCHANGED <<pureVars, sessionVars, treeVars, lastSearch, value, items, lifeVars, hostVars>>

\* The end of setActiveItemExpandEnabled with an _updateActiveItem that does not
\* look the item up in the pick list.
updateAfterExpand_NoCheck(t, activeItem) ==
  /\ hidden' = t.hidden
  /\ expanded' = t.expanded
  /\ isSearchResult' = t.isSearchResult
  /\ children' = t.children
  /\ items' = flattenVisible(t)
  /\ active' = activeItem
  /\ raised' = "none"

\* The end of setActiveItemExpandEnabled: _updateItems, then _updateActiveItem,
\* which throws when the item is not in the new pick list.
updateAfterExpand(t, activeItem) ==
  \E list \in {flattenVisible(t)} :
    /\ hidden' = t.hidden
    /\ expanded' = t.expanded
    /\ isSearchResult' = t.isSearchResult
    /\ children' = t.children
    /\ items' = list
    /\ IF inList(list, activeItem)
       THEN active' = activeItem /\ raised' = "none"
       ELSE active' = active /\ raised' = "NotInPickList"

\* quick-outline.expand: setActiveItemExpandEnabled(true) on the symbol session
Expand ==
  /\ searchMethod = "symbol"
  /\ active # 0
  /\ \E kids \in {IF IsLeaf(active) THEN <<>> ELSE children[active]} :
     \E next \in {itemAt(items, itemIndexOf(items, active) + 1)} :
     \E activeItem \in {IF kids # <<>> THEN kids[1]
                        ELSE IF next # 0 THEN next ELSE active} :
     \E t \in {IF IsLeaf(active) THEN tree
               ELSE [tree EXCEPT !.expanded[active] = TRUE]} :
       updateAfterExpand(t, activeItem)
  /\ pc' = "expand"
  /\ UNCHANGED <<pureVars, sessionVars, lastSearch, value, lifeVars, hostVars>>

\* setActiveItemExpandEnabled(false) that also drops the Match leaves below the
\* collapsed item.
Collapse_DropsLeaves ==
  /\ searchMethod = "symbol"
  /\ active # 0
  /\ \E up \in {parentOf(active)} :
     \E item \in {IF up # 0 THEN up ELSE active} :
     \E below \in {{n \in SymbolIds : inList(allNestedChildren(children, item), n)}} :
     \E t \in {[tree EXCEPT
                  !.expanded = [n \in SymbolIds |->
                                  IF n = item \/ n \in below THEN FALSE ELSE @[n]],
                  !.children = [n \in SymbolIds |->
                                  IF n = item \/ n \in below
                                  THEN SelectSeq(@[n], LAMBDA c : ~IsLeaf(c))
                                  ELSE @[n]]]} :
       updateAfterExpand(t, item)
  /\ pc' = "collapse"
  /\ UNCHANGED <<pureVars, sessionVars, lastSearch, value, lifeVars, hostVars>>

\* quick-outline.collapse: setActiveItemExpandEnabled(false) on the symbol session
Collapse ==
  /\ searchMethod = "symbol"
  /\ active # 0
  /\ \E up \in {parentOf(active)} :
     \E item \in {IF up # 0 THEN up ELSE active} :
     \E prev \in {itemAt(_rootItems, itemIndexOf(_rootItems, active) - 1)} :
     \E activeItem \in {IF up # 0 THEN up
                        ELSE IF prev # 0 THEN prev ELSE active} :
     \E below \in {{n \in SymbolIds : inList(allNestedChildren(children, item), n)}} :
     \E t \in {[tree EXCEPT !.expanded =
                  [n \in SymbolIds |-> IF n = item \/ n \in below THEN FALSE ELSE @[n]]]} :
       updateAfterExpand(t, activeItem)
  /\ pc' = "collapse"
  /\ UNCHANGED <<pureVars, sessionVars, lastSearch, value, lifeVars, hostVars>>

\* previousSearchResult searching the pick list in its own order.
reverse_AsIs(list) == list

\* Array.prototype.reverse on a copy
reverse(list) == [i \in 1..Len(list) |-> list[Len(list) - i + 1]]

\* item.isSearchResult, which a QuickLineItem does not have
isResultItem(item) == ~IsLeaf(item) /\ isSearchResult[item]

\* list.find((item, i) => i > index && item.isSearchResult), i zero-based;
\* 0 for undefined. With index = -1 it is list.find(item => item.isSearchResult).
find(list, index) ==
  LET at == {i \in 1..Len(list) : i - 1 > index /\ isResultItem(list[i])}
  IN IF at = {} THEN 0 ELSE list[Min(at)]

\* The two lookups of nextSearchResult and previousSearchResult on a list, and
\* the end of the handler: _updateActiveItem on the item found (an item of the
\* pick list), or the host's own command named by fallback.
cycleOn(list, done, fallback) ==
  \E index \in {itemIndexOf(list, active)} :
  \E nextSearchResult \in {find(list, index)} :
  \E prevSearchResult \in {find(list, -1)} :
    IF nextSearchResult # 0
    THEN active' = nextSearchResult /\ pc' = done
    ELSE IF prevSearchResult # 0
    THEN active' = prevSearchResult /\ pc' = done
    ELSE active' = active /\ pc' = fallback

\* The item the two lookups make active when the active item is from: the
\* first result after it in the list, else the first result of the list; 0
\* when the list holds no result and the host's own command runs.
searchResultFrom(list, from) ==
  LET nextSearchResult == find(list, itemIndexOf(list, from))
      prevSearchResult == find(list, -1)
  IN IF nextSearchResult # 0 THEN nextSearchResult ELSE prevSearchResult

\* nextSearchResult giving up at the end of the list instead of starting over.
NextSearchResult_NoWrap ==
  /\ raised' = "none"
  /\ IF active = 0
     THEN pc' = "next" /\ active' = active
     ELSE \E found \in {find(items, itemIndexOf(items, active))} :
            IF found # 0 THEN active' = found /\ pc' = "next"
            ELSE active' = active /\ pc' = "hostNext"
  /\ UNCHANGED <<pureVars, sessionVars, treeVars, lastSearch, value, items, lifeVars, hostVars>>

\* quick-outline.nextSearchResult
NextSearchResult ==
  /\ raised' = "none"
  /\ IF active = 0
     THEN pc' = "next" /\ active' = active
     ELSE cycleOn(items, "next", "hostNext")
  /\ UNCHANGED <<pureVars, sessionVars, treeVars, lastSearch, value, items, lifeVars, hostVars>>

\* quick-outline.previousSearchResult
PreviousSearchResult ==
  /\ raised' = "none"
  /\ IF active = 0
     THEN pc' = "previous" /\ active' = active
     ELSE cycleOn(reverse(items), "previous", "hostPrevious")
  /\ UNCHANGED <<pureVars, sessionVars, treeVars, lastSearch, value, items, lifeVars, hostVars>>

Next ==
  \/ \E v \in Queries : ChangeValue(v)
  \/ \E i \in 1..Len(Doc) + Len(Symbols) : ChangeActive(i)
  \/ Expand
  \/ Collapse
  \/ NextSearchResult
  \/ PreviousSearchResult

Spec == Init /\ [][Next]_vars

\* The item expand makes active: the first child of the active item, else the
\* item after it in the pick list (the first item of the list when the active
\* item is not in it), else the active item itself.
ExpandTarget ==
  IF ~IsLeaf(active) /\ children[active] # <<>> THEN children[active][1]
  ELSE LET at == IF inList(items, active)
                 THEN CHOOSE i \in 1..Len(items) : items[i] = active
                 ELSE 0
       IN  IF at + 1 <= Len(items) THEN items[at + 1] ELSE active

\* The item collapse makes active: the parent of the active item, else the
\* root before it, else the active item itself.
CollapseTarget ==
  IF parentOf(active) # 0 THEN parentOf(active)
  ELSE IF \E i \in 2..Len(_rootItems) : _rootItems[i] = active
       THEN _rootItems[(CHOOSE i \in 2..Len(_rootItems) : _rootItems[i] = active) - 1]
       ELSE active

SetsActive(target) ==
  IF inList(items', target)
  THEN active' = target /\ raised' = "none"
  ELSE active' = active /\ raised' = "NotInPickList"

\* C18: an expand or a collapse whose target is absent from the pick list it
\* has just produced raises the error of _updateActiveItem out of the command
\* and leaves the active item as it was; no step of a query, a command or the
\* user ever makes active an item that is absent from the pick list.
C18_AbsentActiveIsFatal ==
  [][/\ pc' = "expand" => SetsActive(ExpandTarget)
     /\ pc' = "collapse" => SetsActive(CollapseTarget)
     /\ pc' \notin {"expand", "collapse"} => raised' # "NotInPickList"
     /\ active' # active => inList(items', active')]_vars

\* An expand has found the first child of the active item hidden by the query:
\* the error is raised and the active item is still the expanded one.
C18_Witness ==
  /\ pc = "expand" /\ raised = "NotInPickList"
  /\ ~IsLeaf(active) /\ children[active] # <<>>
  /\ ~inList(items, children[active][1])

\* --------------------------------------------- the end of a session
\* dispose() without the test of _disposed: the call from the hide notification
\* releases the pick list again.
dispose_NoGuard(s) ==
  [disposed |-> TRUE, released |-> Min({s.released + 2, MaxReleases})]

\* dispose() on the flags s of the session: the pick list is disposed of once,
\* and the hide notification this raises calls dispose() again.
RECURSIVE dispose(_)
dispose(s) ==
  IF s.disposed THEN s
  ELSE dispose([disposed |-> TRUE, released |-> Min({s.released + 1, MaxReleases})])

life == [disposed |-> disposed, released |-> released]

\* onDidHide: the host hides the pick list (Escape, focus lost)
Hide ==
  /\ ~disposed
  /\ \E s \in {dispose(life)} : disposed' = s.disposed /\ released' = s.released
  /\ pc' = "hide"
  /\ raised' = "none"
  /\ UNCHANGED <<pureVars, sessionVars, treeVars, lastSearch, value, items, active, hostVars>>

\* onDidAccept: the cursor goes to the active item and the pick list is hidden,
\* which raises the hide notification.
Accept ==
  /\ ~disposed
  /\ pc' = "accept"
  /\ raised' = "none"
  /\ IF active = 0
     THEN UNCHANGED <<cursorLine, lifeVars>>
     ELSE /\ cursorLine' = IF IsLeaf(active) THEN LeafLine(active) ELSE nameLine(active)
          /\ \E s \in {dispose(life)} : disposed' = s.disposed /\ released' = s.released
  /\ UNCHANGED <<pureVars, searchMethod, kindOf, treeVars, lastSearch, value, items, active, hostVars>>

\* deactivate(): dispose() on the session, open or not
Deactivate ==
  /\ \E s \in {dispose(life)} : disposed' = s.disposed /\ released' = s.released
  /\ pc' = "deactivate"
  /\ raised' = "none"
  /\ UNCHANGED <<pureVars, sessionVars, treeVars, lastSearch, value, items, active, hostVars>>

\* The search strings GlobalState holds when a session is constructed, and the
\* texts typed into its query field.
LifeStrings == {<<>>, <<"#", "b">>, <<"#", "x">>, <<"#", "/", "(", "/">>}

LifeQueries == {<<>>, <<"#">>, <<"b">>, <<"#", "b">>, <<"#", "x">>, <<"#", "/", "(", "/">>}

LifeKinds ==
  [n \in SymbolIds |->
     CASE n \in {2, 4} -> "Class" [] n = 5 -> "Enum" [] OTHER -> "Function"]

\* A session constructed in a process that has searched before.
InitLife ==
  /\ \E strs \in [{"symbol", "text"} -> LifeStrings] : Constructed(strs)
  /\ kindOf = LifeKinds

NextLife ==
  \/ \E v \in LifeQueries : ChangeValue(v)
  \/ \E i \in 1..Len(Doc) + Len(Symbols) : ChangeActive(i)
  \/ Expand
  \/ Collapse
  \/ NextSearchResult
  \/ PreviousSearchResult
  \/ Hide
  \/ Accept
  \/ Deactivate

SpecLife == InitLife /\ [][NextLife]_vars

\* ------------------------------------- the notification a rewrite causes
\* The host delivers a change notification with the text v, in the order of
\* its queue: the one it owes for a rewrite of the value comes before any
\* other. _search rewrites the value when v is not empty and lacks the '#',
\* and the host then owes the notification of the rewritten text.
Notify(v) ==
  /\ pending => v = value
  /\ onDidChangeValue(v)
  /\ pending' = needsSentinel(v)
  /\ UNCHANGED extensionVars

\* The texts typed into the query field; the host also delivers the text the
\* field holds.
EchoQueries ==
  {<<>>, <<"#">>, <<"b">>, <<"#", "b">>, <<"x">>, <<"#", "x">>, <<"A">>}

InitEcho == Init /\ kindOf = LifeKinds

NextEcho ==
  \/ \E v \in EchoQueries \cup {value} : Notify(v)
  \/ \E i \in 1..Len(Doc) + Len(Symbols) : ChangeActive(i)
  \/ Expand
  \/ Collapse

SpecEcho == InitEcho /\ [][NextEcho]_vars

\* ------------------------------------------ two cycling commands in a row
\* quick-outline.nextSearchResult and then quick-outline.previousSearchResult,
\* nothing in between: the pick list is the same for both.
NextThenPrevious ==
  /\ active # 0
  /\ \E there \in {searchResultFrom(items, active)} :
       /\ there # 0
       /\ \E back \in {searchResultFrom(reverse(items), there)} :
            /\ back # 0
            /\ active' = back
  /\ pc' = "nextPrevious"
  /\ raised' = "none"
  /\ UNCHANGED <<pureVars, sessionVars, treeVars, lastSearch, value, items, lifeVars, hostVars>>

\* quick-outline.previousSearchResult and then quick-outline.nextSearchResult
PreviousThenNext ==
  /\ active # 0
  /\ \E there \in {searchResultFrom(reverse(items), active)} :
       /\ there # 0
       /\ \E back \in {searchResultFrom(items, there)} :
            /\ back # 0
            /\ active' = back
  /\ pc' = "previousNext"
  /\ raised' = "none"
  /\ UNCHANGED <<pureVars, sessionVars, treeVars, lastSearch, value, items, lifeVars, hostVars>>

CycleQueries == {<<>>, <<"#", "b">>, <<"#", "a">>, <<"#", "t">>, <<"#", "x", "y">>}

InitCycle == Init /\ kindOf = LifeKinds

NextCycle ==
  \/ \E v \in CycleQueries : ChangeValue(v)
  \/ \E i \in 1..Len(Doc) + Len(Symbols) : ChangeActive(i)
  \/ Expand
  \/ Collapse
  \/ NextThenPrevious
  \/ PreviousThenNext

SpecCycle == InitCycle /\ [][NextCycle]_vars

\* --------------------------------------------- the commands on all items
\* setAllExpandEnabled doing its collapse through _searchNone.
setAllExpandEnabled_Resets(t, e) ==
  IF e THEN [t EXCEPT !.expanded = [n \in SymbolIds |-> TRUE]]
  ELSE _searchNone(t)

\* setAllExpandEnabled: the flag of every symbol of items()
setAllExpandEnabled(t, e) == [t EXCEPT !.expanded = [n \in SymbolIds |-> e]]

\* showAll: every ancestor of a symbol of one of the kinds is expanded.
showAll(t, kinds) ==
  LET up == UNION {ancestors(n) : n \in {m \in SymbolIds : kindOf[m] \in kinds}}
  IN [t EXCEPT !.expanded = [n \in SymbolIds |-> IF n \in up THEN TRUE ELSE @[n]]]

\* The end of setAllExpandEnabled and of showAll: _updateItems
updateItemsOf(t) ==
  /\ hidden' = t.hidden
  /\ expanded' = t.expanded
  /\ isSearchResult' = t.isSearchResult
  /\ children' = t.children
  /\ items' = flattenVisible(t)
  /\ raised' = "none"
  /\ UNCHANGED <<pureVars, sessionVars, lastSearch, value, active, lifeVars, hostVars>>

\* quick-outline.expandAll, on the symbol session
ExpandAll ==
  /\ searchMethod = "symbol"
  /\ updateItemsOf(setAllExpandEnabled(tree, TRUE))
  /\ pc' = "expandAll"

\* quick-outline.collapseAll
CollapseAll ==
  /\ searchMethod = "symbol"
  /\ updateItemsOf(setAllExpandEnabled(tree, FALSE))
  /\ pc' = "collapseAll"

\* quick-outline.showAllFunctionMethod
ShowAllFunctionMethod ==
  /\ searchMethod = "symbol"
  /\ updateItemsOf(showAll(tree, {"Function", "Method"}))
  /\ pc' = "showAll"

CommandQueries == {<<>>, <<"#", "a">>, <<"#", "b">>, <<"#", "f">>}

InitCommands == Init /\ kindOf = LifeKinds

NextCommands ==
  \/ \E v \in CommandQueries : ChangeValue(v)
  \/ \E i \in 1..Len(Doc) + Len(Symbols) : ChangeActive(i)
  \/ Expand
  \/ Collapse
  \/ ExpandAll
  \/ CollapseAll
  \/ ShowAllFunctionMethod
  \/ NextSearchResult
  \/ PreviousSearchResult

SpecCommands == InitCommands /\ [][NextCommands]_vars

\* The steps of the commands that expand, collapse and cycle.
Navigating ==
  pc' \in {"expand", "collapse", "expandAll", "collapseAll", "showAll",
           "next", "previous", "hostNext", "hostPrevious"}

\* C38: expand, collapse, expand-all, collapse-all, show-all and the cycling
\* through the results leave the hidden and isSearchResult flags of every
\* symbol, the Match leaves of every symbol, the session strings and the query
\* field as they are.
C38_CommandsKeepResults ==
  [][Navigating => UNCHANGED <<hidden, isSearchResult, children, lastSearch, value>>]_vars

\* Collapse-all has run on a filtered symbol session: symbols are hidden,
\* symbols are flagged and a Match leaf is in the tree, under a symbol that is
\* now collapsed, and the session string is still the query.
C38_Witness ==
  /\ pc = "collapseAll"
  /\ \E n \in SymbolIds : hidden[n]
  /\ \E n \in SymbolIds : isSearchResult[n]
  /\ \E n \in SymbolIds :
        ~expanded[n] /\ \E i \in 1..Len(children[n]) : IsLeaf(children[n][i])
  /\ lastSearch[searchMethod] = <<"#", "a">> /\ value = <<"#", "a">>

\* C37: with the active item a flagged item of the pick list, next followed by
\* previous, and previous followed by next, leave the active item as it was.
C37_CyclingRoundTrip ==
  [][(/\ pc' \in {"nextPrevious", "previousNext"}
      /\ isResultItem(active) /\ inList(items, active))
       => active' = active]_vars

\* Next and then previous have run on the last of three flagged items of the
\* pick list, the next starting over from the first one, and it is active.
C37_Witness ==
  /\ pc = "nextPrevious"
  /\ Cardinality({i \in 1..Len(items) : isResultItem(items[i])}) >= 3
  /\ isResultItem(active) /\ inList(items, active)
  /\ \A i \in 1..Len(items) :
        isResultItem(items[i]) => itemIndexOf(items, items[i]) <= itemIndexOf(items, active)

\* C21: the notification that a rewrite of the query field causes is consumed
\* without a query pass: its handler leaves the tree, the pick list, the active
\* item, the query field and the session strings as they are.
C21_RewriteEchoSuppressed ==
  [][(pending /\ pc' = "search") =>
       /\ ~pending'
       /\ UNCHANGED <<treeVars, items, active, value, lastSearch>>]_vars

\* C34: the notification that a rewrite of the query field causes carries the
\* rewritten text, which has the sentinel: its handler rewrites nothing and
\* writes the same session string, so no further notification is owed; handled
\* right after the event that caused it, it leaves the tree, the pick list and
\* the active item as that event left them.
C34_EchoSettles ==
  [][/\ (pending /\ pc' = "search")
         => /\ ~pending'
            /\ inputStr' = value /\ value' = value /\ lastSearch' = lastSearch
     /\ (pending /\ pc = "search" /\ pc' = "search")
         => UNCHANGED <<treeVars, items, active>>]_vars

\* The text A is only ever typed without the sentinel: the notification of its
\* rewrite has been handled and none is owed.
C34_Witness ==
  /\ pc = "search" /\ ~pending
  /\ inputStr = <<"#", "A">> /\ value = inputStr
  /\ lastSearch[searchMethod] = value

\* The steps that call dispose(): the hide notification, an accept with an
\* active item, deactivate.
Disposing == pc' \in {"hide", "deactivate"} \/ (pc' = "accept" /\ active # 0)

\* C16: dispose() is idempotent. The step that ends a session releases its
\* pick list exactly once although the hide notification calls dispose() again
\* from inside it, a later call releases nothing and changes nothing of the
\* session, and no call raises anything.
C16_DisposeIdempotent ==
  /\ (disposed /\ released = 1) \/ (~disposed /\ released = 0)
  /\ [][Disposing =>
          /\ disposed' /\ released' = 1
          /\ raised' = "none"
          /\ disposed => UNCHANGED <<lifeVars, treeVars, items, active, value, lastSearch>>]_vars

\* An accept has ended the session: its hide notification has called dispose(),
\* and the pick list was released once.
C16_Witness == pc = "accept" /\ active # 0 /\ disposed /\ released = 1

\* C19: the step that handles a query leaves the string of the session's
\* method equal to the text of the query field and the string of the other
\* method as it was; expand, collapse, the two cycle commands and the steps
\* that dispose of the session write neither string.
C19_SessionStringWrites ==
  [][/\ pc' = "search" =>
          /\ lastSearch'[searchMethod] = value'
          /\ \A m \in DOMAIN lastSearch \ {searchMethod} : lastSearch'[m] = lastSearch[m]
     /\ pc' \in {"expand", "collapse", "next", "previous", "hostNext", "hostPrevious",
                 "hide", "accept", "deactivate"} => lastSearch' = lastSearch]_vars

\* A text session opened on the string #b while the symbol method holds #x has
\* handled the query #: the text string is #, the symbol string is still #x.
C19_Witness ==
  /\ pc = "search" /\ searchMethod = "text"
  /\ value = <<"#">>
  /\ lastSearch = [symbol |-> <<"#", "x">>, text |-> <<"#">>]

\* The tree of a session constructed while the string of its method is empty.
FreshTree ==
  LET closestItem == _getClosestItem(newTree, constructedItems, <<>>)
  IN  [newTree EXCEPT !.expanded = [n \in SymbolIds |->
                                      closestItem # 0 /\ n \in ancestors(closestItem)]]

\* What the query q entered into that session as its first query leaves: the
\* tree, and the pick list, which a pass that throws does not replace.
FreshAfter(q) == _search(FreshTree, q)

FreshItems(q) ==
  IF FreshAfter(q).threw THEN flattenVisible(FreshTree)
  ELSE flattenVisible(FreshAfter(q).tree)

\* C20 as stated: a session constructed while the string of its method is not
\* empty shows, as constructed, the string in the query field and the pick
\* list the query gives in a fresh session.
C20_Original ==
  (pc = "constructed" /\ lastSearch[searchMethod] # <<>>) =>
     /\ value = lastSearch[searchMethod]
     /\ items = FreshItems(value)

\* C20: a session as constructed shows the string of its method in the query
\* field; when that string is not empty the pick list is the unfiltered list
\* of the roots and no item is active. The query is applied by the handler of
\* the first change notification that carries the restored text: it leaves the
\* tree the same query leaves in a fresh session, and the pick list of that
\* tree unless the pass throws, in which case the pick list stays as it was.
C20_RestoredOnNotification ==
  /\ pc = "constructed" =>
        /\ value = lastSearch[searchMethod]
        /\ value # <<>> => (items = _rootItems /\ active = 0)
  /\ [][(pc = "constructed" /\ value # <<>> /\ pc' = "search" /\ inputStr' = value) =>
          /\ tree' = FreshAfter(value).tree
          /\ items' = IF raised' = "none" THEN FreshItems(value) ELSE items]_vars

\* A text session restored on #x has handled the notification: the pick list
\* is filtered, and no item is active because the only match is a line that
\* starts no symbol.
C20_Witness ==
  /\ pc = "search" /\ searchMethod = "text" /\ raised = "none"
  /\ inputStr = <<"#", "x">> /\ value = inputStr
  /\ active = 0
  /\ items = FreshItems(value) /\ items # _rootItems

\* The line an item starts on: of a symbol its range, of a Match leaf its line.
StartLine(item) == IF IsLeaf(item) THEN LeafLine(item) ELSE lineStart(item)

SortedByStart(list) ==
  \A i, j \in 1..Len(list) : i < j => StartLine(list[i]) <= StartLine(list[j])

\* C22: the root list and the children list of every node are sorted by start
\* line ascending in every state, the Match leaves among the symbols.
C22_ChildrenSorted ==
  /\ SortedByStart(_rootItems)
  /\ \A n \in SymbolIds : SortedByStart(children[n])

\* The steps of the commands and of the query handler.
Operating ==
  pc' \in {"search", "expand", "collapse", "next", "previous", "hostNext", "hostPrevious"}

\* C17: a query or a command that reaches a session after its dispose raises
\* a fatal error at once and changes nothing of the tree or of the session.
C17_DisposedSessionRejects ==
  [][(disposed /\ Operating) =>
       /\ raised' # "none"
       /\ UNCHANGED <<treeVars, items, active, value, lastSearch>>]_vars


\* ------------------------------------------------ claims about the session
\* The Match leaves under symbol n, and the lines of all Match leaves.
LeavesOf(n) == {children[n][i] : i \in {j \in 1..Len(children[n]) : IsLeaf(children[n][j])}}

LeafLines == UNION {{LeafLine(x) : x \in LeavesOf(n)} : n \in SymbolIds}

Flagged == {n \in SymbolIds : isSearchResult[n]}

\* The lines of the document that satisfy the tokens.
MatchedLines(tokens) ==
  {ln \in 0..(lineCount - 1) : searchLine(ln, lineAt(ln), tokens).kind = "match"}

\* The start lines of the symbols whose name satisfies the tokens.
MatchedNameLines(tokens) ==
  {lineStart(n) : n \in {m \in SymbolIds :
      searchLine(lineStart(m), Symbols[m].name, tokens).kind = "match"}}

\* p is the innermost symbol whose range encloses line ln.
Innermost(p, ln) ==
  /\ contains(p, ln)
  /\ \A n \in SymbolIds : contains(n, ln) => (n = p \/ n \in ancestors(p))

\* A query pass has just ended without an exception.
AfterPass(method, type) ==
  pc = "search" /\ raised = "none" /\ searchMethod = method /\ search.type = type

\* Symbol n is shown: it and its ancestors are not hidden, its ancestors expanded.
Revealed(n) ==
  /\ ~hidden[n]
  /\ \A a \in ancestors(n) : ~hidden[a] /\ expanded[a]

\* C1: in textual mode, after a TextOnly pass the lines shown as Match leaves or
\* as flagged symbols are exactly the lines that satisfy the tokens, and each
\* Match leaf hangs under the innermost symbol enclosing its line.  Violated: a
\* matched line that lies in no symbol is dropped.
C1_TextOnlyShowsEveryMatch ==
  AfterPass("text", "simple")
    => /\ LeafLines \cup {lineStart(n) : n \in Flagged} = MatchedLines(search.search)
       /\ \A n \in SymbolIds : \A x \in LeavesOf(n) : Innermost(n, LeafLine(x))

\* What does hold of the pass of C1: the lines shown are the matched lines that
\* are the start line of a symbol or lie inside one, and a Match leaf hangs
\* under a symbol that encloses its line and has no child enclosing it.
C1_ShownAreTheEnclosedMatches ==
  AfterPass("text", "simple")
    => /\ LeafLines \cup {lineStart(n) : n \in Flagged}
            = {ln \in MatchedLines(search.search) :
                 \E n \in SymbolIds : lineStart(n) = ln \/ contains(n, ln)}
       /\ \A n \in SymbolIds : \A x \in LeavesOf(n) :
            /\ contains(n, LeafLine(x))
            /\ \A m \in SymbolIds : parentOf(m) = n => ~contains(m, LeafLine(x))

\* The flags a kind-filter pass leaves, for the set of kinds it selected.
FilterPassShows(kinds) ==
  /\ Flagged = {n \in SymbolIds : kindOf[n] \in kinds}
  /\ \A n \in Flagged : Revealed(n)

C6_NoQueryResets ==
  (pc = "search" /\ inputStr \in {<<>>, <<"#">>})
    => IF searchMethod = "text"
       THEN flattenVisible(tree) = <<>> /\ items = <<>>
       ELSE /\ \A n \in SymbolIds : ~hidden[n] /\ ~expanded[n] /\ ~isSearchResult[n]
            /\ LeafLines = {}

\* C6 witness: the sentinel alone was handled by a structural session whose
\* active item is still the grandchild 5 that an earlier expansion had reached.
C6_Witness ==
  /\ pc = "search" /\ inputStr = <<"#">> /\ searchMethod = "symbol"
  /\ active = 5 /\ items = _rootItems

\* C7: in structural mode, after a FilterAndText pass the flagged symbols are
\* exactly those whose kind is selected and whose start line is a matched line;
\* they are revealed with their ancestors expanded, and every other symbol that
\* is not an ancestor of one of them is hidden.
C7_StructuralFilterAndText ==
  AfterPass("symbol", "filter-search")
    => /\ Flagged = {n \in SymbolIds :
                       /\ kindOf[n] \in search.filter
                       /\ lineStart(n) \in MatchedNameLines(search.search)}
       /\ \A n \in Flagged : Revealed(n)
       /\ \A n \in SymbolIds \ Flagged :
            (\A m \in Flagged : n \notin ancestors(m)) => hidden[n]

\* C7 witness: #f b flagged the function 5 (named b) under ancestors that are no
\* functions, and left the function-free symbol 4 hidden.
C7_Witness ==
  /\ AfterPass("symbol", "filter-search") /\ inputStr = <<"#", "f", " ", "b">>
  /\ kindOf[5] = "Function" /\ isSearchResult[5]
  /\ kindOf[3] = "Enum" /\ ~isSearchResult[3] /\ expanded[3]
  /\ hidden[4]

\* C8: in textual mode, after a FilterAndText pass every Match leaf hangs under
\* a symbol of a selected kind, every flagged symbol is of a selected kind, and
\* a symbol of another kind is visible only as an ancestor of such a node.
C8_TextualFilterAndText ==
  AfterPass("text", "filter-search")
    => /\ \A n \in SymbolIds : LeavesOf(n) # {} => kindOf[n] \in search.filter
       /\ \A n \in Flagged : kindOf[n] \in search.filter
       /\ \A n \in SymbolIds :
            (kindOf[n] \notin search.filter /\ ~hidden[n])
              => \E m \in SymbolIds :
                   /\ n \in ancestors(m)
                   /\ m \in Flagged \/ LeavesOf(m) # {}

\* C8 witness: #t b put a Match leaf under the class 3 and showed its parent 2,
\* a function, as an ancestor only.
C8_Witness ==
  /\ AfterPass("text", "filter-search") /\ inputStr = <<"#", "t", " ", "b">>
  /\ kindOf[3] = "Class" /\ LeavesOf(3) # {}
  /\ kindOf[2] = "Function" /\ ~hidden[2] /\ ~isSearchResult[2] /\ LeavesOf(2) = {}

\* The item the claim makes closestNode return for a list of candidates (0 for
\* none): of the candidates that are not hidden and, when the session string is
\* not empty, flagged, the last scanned of those nearest to the cursor line.
ClosestNode(list, hid, res, str) ==
  LET effectiveLine(item) == IF IsLeaf(item) THEN LeafLine(item) ELSE nameLine(item)
      distance(i) == abs(cursorLine - effectiveLine(list[i]))
      eligible == {i \in 1..Len(list) :
                     /\ ~IsLeaf(list[i]) => ~hid[list[i]]
                     /\ Len(str) > 0 => (~IsLeaf(list[i]) /\ res[list[i]])}
      least == {i \in eligible : \A j \in eligible : distance(i) <= distance(j)}
  IN IF eligible = {} THEN 0
     ELSE list[CHOOSE i \in least : \A j \in least : j <= i]

FlaggedAt == {i \in 1..Len(items) : ~IsLeaf(items[i]) /\ isSearchResult[items[i]]}

ActiveAt ==
  IF \E i \in 1..Len(items) : items[i] = active
  THEN CHOOSE i \in 1..Len(items) : items[i] = active
  ELSE 0

First(S) == CHOOSE i \in S : \A j \in S : i <= j
Last(S) == CHOOSE i \in S : \A j \in S : j <= i

\* C14: over the pick list, next selects the first flagged node after the
\* active one and wraps to the first flagged node of the list when none
\* follows; previous selects the nearest flagged node before it and wraps to
\* the last one; with no flagged node in the list the active item stays and the
\* host's own next or previous command is run.
C14_ResultCycling ==
  [][/\ (active # 0 /\ pc' \in {"next", "hostNext"})
         => IF FlaggedAt = {}
            THEN active' = active /\ pc' = "hostNext"
            ELSE /\ pc' = "next"
                 /\ active' = items[IF \E i \in FlaggedAt : i > ActiveAt
                                    THEN First({i \in FlaggedAt : i > ActiveAt})
                                    ELSE First(FlaggedAt)]
     /\ (active # 0 /\ pc' \in {"previous", "hostPrevious"})
         => IF FlaggedAt = {}
            THEN active' = active /\ pc' = "hostPrevious"
            ELSE /\ pc' = "previous"
                 /\ active' = items[IF \E i \in FlaggedAt : i < ActiveAt
                                    THEN Last({i \in FlaggedAt : i < ActiveAt})
                                    ELSE Last(FlaggedAt)]]_vars

\* C14 witness: next has made the first item of the pick list active, one of
\* several flagged items, which only starting over from the end does.
C14_Witness ==
  /\ pc = "next" /\ Cardinality(FlaggedAt) >= 2
  /\ 1 \in FlaggedAt /\ active = items[1]

\* The Match leaves in the subtree of item n.
LeavesBelow(n) ==
  IF IsLeaf(n) THEN {}
  ELSE LET below == allNestedChildren(children, n)
       IN {below[i] : i \in {j \in 1..Len(below) : IsLeaf(below[j])}}

\* The item Collapse collapses: the parent of the active item, or the active
\* item itself when it is a root.
CollapsedItem == IF parentOf(active) # 0 THEN parentOf(active) ELSE active

\* C15: collapsing a node removes the Match leaves of its subtree from the pick
\* list and leaves them in the tree under the same parents; expanding their
\* parent again, while it is in the pick list, shows them again.
C15_CollapseKeepsLeaves ==
  [][/\ pc' = "collapse"
         => /\ children' = children
            /\ \A x \in LeavesBelow(CollapsedItem) : ~inList(items', x)
     /\ (pc' = "expand" /\ ~IsLeaf(active))
         => /\ children' = children
            /\ inList(items', active)
                 => \A x \in LeavesOf(active) : inList(items', x)]_vars

\* C15 witness: a collapse left a Match leaf in the tree, under its parent, and
\* out of the pick list.
C15_Witness ==
  /\ pc = "collapse"
  /\ \E n \in SymbolIds : \E x \in LeavesOf(n) : ~expanded[n] /\ ~inList(items, x)

\* The lines the search of the latest query has matched: lines of the document
\* in a text session, start lines of the symbols whose name matches in a
\* symbol session; none when the query has no search text.
LatestLines ==
  IF search.type \in {"simple", "filter-search"}
  THEN IF searchMethod = "text" THEN MatchedLines(search.search)
       ELSE MatchedNameLines(search.search)
  ELSE {}

\* C23: no Match leaf exists after construction, and in every state each Match
\* leaf of the tree is a leaf of the latest query: it hangs below the symbol
\* its constructor was given and its line is one the latest query matched, so
\* the leaves of every earlier pass are gone.
C23_LeavesOfLatestQuery ==
  /\ pc = "constructed" => LeafLines = {}
  /\ \A n \in SymbolIds : \A x \in LeavesOf(n) :
        LeafParent(x) = n /\ LeafLine(x) \in LatestLines

\* After a pass that made leaves the query has been cleared: the active item
\* is still a leaf of the earlier pass, and the tree holds no leaf.
C23_Witness ==
  /\ pc = "search" /\ search.type = "none"
  /\ active # 0 /\ IsLeaf(active)
  /\ LeafLines = {}

\* The symbols in the subtree of item n, n included when it is a symbol.
SubtreeSymbols(n) ==
  IF IsLeaf(n) THEN {}
  ELSE {n} \cup {m \in SymbolIds : inList(allNestedChildren(children, n), m)}

\* The root before root n in the root list, 0 when n is the first.
PreviousRoot(n) ==
  LET at == CHOOSE i \in 1..Len(_rootItems) : _rootItems[i] = n
  IN  IF at > 1 THEN _rootItems[at - 1] ELSE 0

\* The active item is one of a pick list that shows the tree as it is (after a
\* pass that threw, the pick list is still the one of the pass before).
ActiveInList == items = flattenVisible(tree) /\ inList(items, active)

CollapseWithParent ==
  (pc' = "collapse" /\ ActiveInList /\ parentOf(active) # 0) =>
     /\ active' = parentOf(active)
     /\ \A m \in SubtreeSymbols(active) : ~expanded'[m]

CollapseOfRoot ==
  (pc' = "collapse" /\ ActiveInList /\ parentOf(active) = 0) =>
     /\ \A m \in SubtreeSymbols(active) : ~expanded'[m]
     /\ active' = IF PreviousRoot(active) # 0 THEN PreviousRoot(active) ELSE active

\* C25: a collapse on an active node of the pick list that has a parent makes
\* the parent active and leaves the node and its descendants collapsed; on an
\* active root it collapses the root and its descendants and makes the root
\* before it active, or leaves the active node alone when it is the first.
C25_Collapse == [][CollapseWithParent /\ CollapseOfRoot]_vars

\* The item after the active one in the pick list, 0 when it is the last.
NextInList ==
  LET at == CHOOSE i \in 1..Len(items) : items[i] = active
  IN  IF at < Len(items) THEN items[at + 1] ELSE 0

ExpandSetsFlag ==
  (pc' = "expand" /\ ActiveInList /\ ~IsLeaf(active)) => expanded'[active]

ExpandToFirstChild ==
  (pc' = "expand" /\ ActiveInList /\ ~IsLeaf(active) /\ children[active] # <<>>) =>
     active' = children[active][1]

ExpandToNext ==
  (pc' = "expand" /\ ActiveInList /\ (IsLeaf(active) \/ children[active] = <<>>)) =>
     active' = IF NextInList # 0 THEN NextInList ELSE active

\* C26: an expand on an active node of the pick list sets its expanded flag;
\* the first child of the node becomes active when it has children, else the
\* item after the node in the pick list, else the node stays active.
C26_Expand == [][ExpandSetsFlag /\ ExpandToFirstChild /\ ExpandToNext]_vars

\* C27: right after a query pass every flagged symbol and every Match leaf is
\* shown: it is not hidden and each of its ancestors is not hidden and
\* expanded; when the pass has not thrown, the pick list holds all of them.
C27_ResultsAreVisible ==
  pc = "search" =>
    /\ \A n \in Flagged : Revealed(n) /\ (raised = "none" => inList(items, n))
    /\ \A n \in SymbolIds : \A x \in LeavesOf(n) :
          /\ Revealed(n) /\ expanded[n]
          /\ raised = "none" => inList(items, x)

\* A pass has flagged a symbol two levels down and made a Match leaf.
C27_Witness ==
  /\ pc = "search" /\ raised = "none"
  /\ \E n \in Flagged : parentOf(n) # 0 /\ parentOf(parentOf(n)) # 0
  /\ LeafLines # {}

\* The roots whose range reaches line ln.
RootsReaching(ln) ==
  {r \in SymbolIds : parentOf(r) = 0 /\ lineStart(r) <= ln /\ ln <= Symbols[r].end.line}

\* The nodes that have accepted line ln: the flagged symbols that start on it
\* and the Match leaves of it.
Accepted(ln) ==
  {n \in Flagged : lineStart(n) = ln}
    \cup UNION {{x \in LeavesOf(n) : LeafLine(x) = ln} : n \in SymbolIds}

\* A pass that offers its matches to insertLineIfParent has ended.
InsertingPass ==
  /\ pc = "search" /\ raised = "none"
  /\ search.type = "simple" \/ (search.type = "filter-search" /\ searchMethod = "text")

\* C28: after a pass that inserts its matches, a line has been accepted by at
\* most one node inside each root that reaches it; a line that only one root
\* reaches, as every line is when the roots are disjoint, is accepted by at most
\* one node of the tree: one flagged symbol or one Match leaf.
C28_OneAcceptorPerRoot ==
  InsertingPass =>
    \A ln \in 0..(lineCount - 1) :
      /\ Cardinality(Accepted(ln)) <= Cardinality(RootsReaching(ln))
      /\ Cardinality(RootsReaching(ln)) <= 1 => Cardinality(Accepted(ln)) <= 1

\* Line 1, where the root a and its child b both start and which one root
\* reaches, has been accepted by a alone; line 2 by one Match leaf.
C28_Witness ==
  /\ InsertingPass /\ searchMethod = "text"
  /\ RootsReaching(1) = {2} /\ Accepted(1) = {2} /\ lineStart(4) = 1
  /\ Accepted(2) = {LeafId(2, 2)}

\* C30: after a handled input that parses to no query in a symbol session (the
\* empty text or the sentinel alone), the candidates of closestNode are not
\* restricted to flagged nodes: with a pick list that is not empty the active
\* item is the item of the list nearest to the cursor.
C30_NoQueryTakesNearest ==
  (AfterPass("symbol", "none") /\ items # <<>>)
    => /\ active # 0
       /\ active = ClosestNode(items, hidden, isSearchResult, <<>>)

\* The positions of the pick list that hold a flagged symbol or a Match leaf.
ResultAt == {i \in 1..Len(items) : IsLeaf(items[i]) \/ isSearchResult[items[i]]}

\* closestNode with the Match leaves among its candidates: of the items of the
\* list that are a Match leaf or a flagged symbol that is not hidden, the last
\* scanned of those nearest to the cursor line (0 for none).
ClosestResult(list, hid, res) ==
  LET effectiveLine(item) == IF IsLeaf(item) THEN LeafLine(item) ELSE nameLine(item)
      distance(i) == abs(cursorLine - effectiveLine(list[i]))
      eligible == {i \in 1..Len(list) :
                     IsLeaf(list[i]) \/ (~hid[list[i]] /\ res[list[i]])}
      least == {i \in eligible : \A j \in eligible : distance(i) <= distance(j)}
  IN IF eligible = {} THEN 0
     ELSE list[CHOOSE i \in least : \A j \in least : j <= i]

\* C31: a Match leaf counts as a search result for navigation: a handled query
\* that leaves a session string makes active the nearest of the flagged symbols
\* and Match leaves of the pick list, and next and previous stop on the Match
\* leaves as they do on the flagged symbols.
C31_LeavesAreResults ==
  [][/\ (pc' = "search" /\ raised' = "none" /\ search'.type # "none")
         => active' = IF ClosestResult(items', hidden', isSearchResult') # 0
                      THEN ClosestResult(items', hidden', isSearchResult')
                      ELSE active
     /\ (active # 0 /\ pc' \in {"next", "hostNext"})
         => IF ResultAt = {}
            THEN active' = active /\ pc' = "hostNext"
            ELSE /\ pc' = "next"
                 /\ active' = items[IF \E i \in ResultAt : i > ActiveAt
                                    THEN First({i \in ResultAt : i > ActiveAt})
                                    ELSE First(ResultAt)]
     /\ (active # 0 /\ pc' \in {"previous", "hostPrevious"})
         => IF ResultAt = {}
            THEN active' = active /\ pc' = "hostPrevious"
            ELSE /\ pc' = "previous"
                 /\ active' = items[IF \E i \in ResultAt : i < ActiveAt
                                    THEN Last({i \in ResultAt : i < ActiveAt})
                                    ELSE Last(ResultAt)]]_vars

\* C33: an expand or a collapse on an active node of the pick list makes
\* active a node of the pick list it has just produced, a filter applied or
\* not, and so does not raise the error of _updateActiveItem.
C33_RetargetStaysInList ==
  [][(ActiveInList /\ pc' \in {"expand", "collapse"})
       => /\ inList(items', IF pc' = "expand" THEN ExpandTarget ELSE CollapseTarget)
          /\ inList(items', active')
          /\ raised' # "NotInPickList"]_vars

\* C35: the tree a query pass leaves (the hidden, expanded and isSearchResult
\* flags of every symbol, and the Match leaves of every symbol in their order)
\* is the tree the same query leaves on the tree the constructors build and on
\* the tree of a session just constructed, whatever queries, expands, collapses
\* and cycling came before; a pass that throws leaves every symbol hidden, as
\* it does on a new tree.
C35_PassIsHistoryFree ==
  pc = "search" =>
    /\ tree = _search(newTree, inputStr).tree
    /\ tree = FreshAfter(inputStr).tree

\* The query #xy, which nothing matches, has come after a query that made
\* Match leaves: the active item is still a leaf of that query, and the tree
\* is the one #xy leaves on a new tree, every symbol hidden and no leaf left.
C35_Witness ==
  /\ pc = "search" /\ raised = "none" /\ inputStr = <<"#", "x", "y">>
  /\ active # 0 /\ IsLeaf(active)
  /\ \A n \in SymbolIds : hidden[n] /\ LeavesOf(n) = {}

\* The symbols whose name satisfies the tokens.
NameMatches(tokens) ==
  {n \in SymbolIds : searchLine(lineStart(n), Symbols[n].name, tokens).kind = "match"}

\* C39: in a symbol session, after a TextOnly pass the flagged symbols are
\* exactly the symbols whose name satisfies the tokens, symbols that start on
\* one line included, and the tree holds no Match leaf.
C39_TextOnlyFlagsMatchingNames ==
  AfterPass("symbol", "simple")
    => /\ Flagged = NameMatches(search.search)
       /\ LeafLines = {}

\* Symbol n is a result or leads to one: it is flagged, or holds a Match leaf,
\* or is an ancestor of a symbol that is flagged or holds a Match leaf.
LeadsToResult(n) ==
  \E m \in SymbolIds :
    /\ m \in Flagged \/ LeavesOf(m) # {}
    /\ n = m \/ n \in ancestors(m)

\* C40: right after the pass of a query that is not empty, every item of the
\* flattening of the tree is a flagged symbol, a Match leaf or an ancestor of
\* one of them, and the pick list of a pass that has not thrown is that
\* flattening.
C40_OnlyResultsAreShown ==
  (pc = "search" /\ search.type # "none")
    => /\ \A i \in 1..Len(flattenVisible(tree)) :
            \/ IsLeaf(flattenVisible(tree)[i])
            \/ LeadsToResult(flattenVisible(tree)[i])
       /\ raised = "none" => items = flattenVisible(tree)

\* A pass has left in the pick list a flagged symbol, a Match leaf and a symbol
\* that is neither flagged nor the holder of a leaf, shown as an ancestor, and
\* has left another symbol hidden.
C40_Witness ==
  /\ pc = "search" /\ raised = "none" /\ search.type # "none"
  /\ \E i \in 1..Len(items) : IsLeaf(items[i])
  /\ \E i \in 1..Len(items) : ~IsLeaf(items[i]) /\ isSearchResult[items[i]]
  /\ \E i \in 1..Len(items) :
        /\ ~IsLeaf(items[i]) /\ ~isSearchResult[items[i]]
        /\ LeavesOf(items[i]) = {}
  /\ \E n \in SymbolIds : hidden[n]

\* ------------------------------------------- specification of the parser
\* The characters typed in the parser specification: the six filter letters of
\* the grammar, a letter that is none of them, the sentinel and a space.
ParseAlphabet == {"f", "c", "s", "o", "e", "t", "a", "#", " "}

\* _search hands the parser the empty string or a string that starts with the
\* sentinel (QuickOutline.ts:259-262).
ParseInputs == {<<>>} \cup {<<"#">> \o r : r \in StringsUpTo(ParseAlphabet, MaxRest)}

\* The parser and matcher specifications build no session.
NoSession ==
  /\ searchMethod = "symbol"
  /\ kindOf = [n \in SymbolIds |-> "Class"]
  /\ cursorLine = 0
  /\ hidden = newTree.hidden
  /\ expanded = newTree.expanded
  /\ isSearchResult = newTree.isSearchResult
  /\ children = newTree.children
  /\ lastSearch = [symbol |-> <<>>, text |-> <<>>]
  /\ value = <<>>
  /\ items = <<>>
  /\ active = 0
  /\ raised = "none"
  /\ disposed = FALSE
  /\ released = 0
  /\ pending = FALSE
  /\ NoExtension

InitParse ==
  /\ pc = "input"
  /\ inputStr \in ParseInputs
  /\ search = NoSearch
  /\ line = <<>> /\ parsed = <<>> /\ matched = Idle
  /\ NoSession

Parse ==
  /\ pc = "input"
  /\ pc' = "parsed"
  /\ search' = parseSearchCommand(inputStr)
  /\ UNCHANGED <<inputStr, line, parsed, matched, outlineVars>>

NextParse == Parse

SpecParse == InitParse /\ [][NextParse]_vars

\* ------------------------------------------------- the grammar of spec 4.2
\* The first token of an input: its longest prefix without white space.
FirstToken(s) ==
  LET stop == {i \in 1..Len(s) : IsSpace(s[i])}
  IN IF stop = {} THEN s ELSE SubSeq(s, 1, Min(stop) - 1)

NoSpace(s) == \A i \in 1..Len(s) : ~IsSpace(s[i])

\* <token> WHITESPACE+ <rest>: a token, white space, and something after it.
TwoPart(s) ==
  /\ FirstToken(s) # <<>>
  /\ Len(FirstToken(s)) < Len(s)
  /\ \E i \in (Len(FirstToken(s)) + 1)..Len(s) : ~IsSpace(s[i])

DistinctLetters(tok, letters) ==
  /\ Len(tok) > 1
  /\ \A i \in 2..Len(tok) : tok[i] \in letters
  /\ \A i, j \in 2..Len(tok) : i < j => tok[i] # tok[j]

\* The valid kind-filter token and the kindsFor mapping as spec 4.2 states them.
CanonicalFilterToken(tok) == DistinctLetters(tok, {"f", "c", "s", "o", "e", "t"})

CanonicalKindsOf(c) ==
  CASE c = "f" -> {"Function", "Method"}
    [] c = "c" -> {"Class", "Property"}
    [] c = "s" -> {"Struct", "Property"}
    [] c = "o" -> {"Object"}
    [] c = "e" -> {"Enum", "EnumMember"}
    [] c = "t" -> {"Struct", "Class", "Interface", "TypeParameter"}
    [] OTHER -> {}

\* The same with the letters and sets that hold of search.ts.
AmendedFilterToken(tok) == DistinctLetters(tok, {"f", "c", "t"})

AmendedKindsOf(c) ==
  CASE c = "f" -> {"Function", "Method"}
    [] c = "c" -> {"Class", "Property"}
    [] c = "t" -> {"Enum", "EnumMember", "Struct", "Class", "Interface", "TypeParameter"}
    [] OTHER -> {}

TextOnly(s) == [type |-> "simple", search |-> parseSearchString(slice(s, 1))]

\* C2: an input <token> WHITESPACE+ <rest> whose first token is not a valid
\* kind-filter token parses to TextOnly over the whole sentinel-stripped string.
\* parseSearchCommand never validates the first token of a two-part input, so
\* TLC finds this violated.
C2_InvalidFilterFallsBackToText ==
  (pc = "parsed" /\ TwoPart(inputStr) /\ ~CanonicalFilterToken(FirstToken(inputStr)))
    => search = TextOnly(inputStr)

BlankAfterSentinel(s) ==
  /\ Len(s) > 1 /\ s[1] = "#"
  /\ \A i \in 2..Len(s) : IsSpace(s[i])

\* C29: the sentinel followed only by white space parses to TextOnly with the
\* empty token list, not to a kind filter.
C29_BlankQueryIsTextOnly ==
  (pc = "parsed" /\ BlankAfterSentinel(inputStr))
    => search = [type |-> "simple", search |-> <<>>]

\* The texts of the session specification typed without the sentinel.
Unprefixed == {v \in Queries : v # <<>> /\ v[1] # "#"}

\* What the grammar makes of the text v typed without the sentinel and handled
\* as the sentinel followed by v: a first token that is a kind-filter token is
\* the filter and the rest gives the tokens; any other text gives its tokens
\* whole.
KeepsEveryToken(v, s) ==
  IF CanonicalFilterToken(FirstToken(<<"#">> \o v))
  THEN /\ s.type \in {"filter", "filter-search"}
       /\ s.type = "filter-search"
            => s.search = parseSearchString(slice(v, Len(FirstToken(v))))
  ELSE s = TextOnly(<<"#">> \o v)

\* C32: a text typed without the sentinel is handled as the same text behind
\* the sentinel: the parser is given a string that starts with the sentinel,
\* the handler does what it does for the text typed with the sentinel, and no
\* character of the text is missing from the tokens.
C32_SentinelPrepended ==
  [][\A v \in Unprefixed :
       /\ (pc' = "search" /\ ChangeValue(v))
            => /\ inputStr' = <<"#">> \o v
               /\ ChangeValue(<<"#">> \o v)
               /\ KeepsEveryToken(v, search')
       /\ (pc' = "search" /\ inputStr' = <<"#">> \o v /\ ChangeValue(<<"#">> \o v))
            => ChangeValue(v)]_vars

\* ------------------------------------------ specification of the matcher
\* The characters of a search text: a letter in both cases (i is also a regex
\* flag), the negation and regex markers, an unclosed group, a space.
SearchAlphabet == {"i", "I", "!", "/", "(", " "}

LineAlphabet == {"i", "I"}

InitMatch ==
  /\ pc = "input"
  /\ inputStr \in StringsUpTo(SearchAlphabet, MaxSearchLen)
  /\ line \in StringsUpTo(LineAlphabet, MaxLineLen)
  /\ search = NoSearch /\ parsed = <<>> /\ matched = Idle
  /\ NoSession

\* parseSearchString on the search text
Tokenize ==
  /\ pc = "input"
  /\ pc' = "tokens"
  /\ parsed' = parseSearchString(inputStr)
  /\ UNCHANGED <<inputStr, search, line, matched, outlineVars>>

\* searchLine on one line of text
SearchLine ==
  /\ pc = "tokens"
  /\ pc' = "matched"
  /\ matched' = searchLine(0, line, parsed)
  /\ UNCHANGED <<inputStr, search, line, parsed, outlineVars>>

\* The document searchDocument is tried on: the line of text between two fixed
\* lines and repeated after them.
MatchDoc == <<<<"i">>, line, <<"I">>, line>>

\* searchDocument on the document
SearchDocument ==
  /\ pc = "tokens"
  /\ pc' = "document"
  /\ matched' = searchDocument(MatchDoc, parsed)
  /\ UNCHANGED <<inputStr, search, line, parsed, outlineVars>>

NextMatch == Tokenize \/ SearchLine \/ SearchDocument

SpecMatch == InitMatch /\ [][NextMatch]_vars

\* p occurs in text, written without indexOf.
Occurs(p, text) ==
  \E i \in 0..(Len(text) - Len(p)) : \A k \in 1..Len(p) : text[i + k] = p[k]

HasUpper(s) == \E i \in 1..Len(s) : s[i] \in {"A", "B", "I"}

\* p occurs in text under the case rule of a fragment: as it stands when the
\* fragment holds an upper-case letter, in the lower-cased line otherwise.
OccursFor(p, text) ==
  IF HasUpper(p) THEN Occurs(p, text) ELSE Occurs(p, toLowerCase(text))

NegatedSubstring(tok) == tok.negate /\ ~tok.isRegex

\* C9: with negated substring tokens only, the line is excluded iff the pattern
\* of one of them occurs in it (case-sensitively iff its fragment holds an
\* upper-case letter), and a kept line records no range.
C9_NegatedSubstring ==
  (/\ pc = "matched"
   /\ parsed # <<>>
   /\ \A k \in 1..Len(parsed) : NegatedSubstring(parsed[k]))
    => IF \E k \in 1..Len(parsed) : OccursFor(parsed[k].pattern, line)
       THEN matched = Null
       ELSE matched = MatchedRange(0, <<>>)

\* C9 witness: !i on the line I: the pattern is absent as typed but occurs in
\* the lower-cased line, and the line was excluded.
C9_Witness ==
  /\ pc = "matched" /\ inputStr = <<"!", "i">> /\ line = <<"I">>
  /\ matched = Null

\* A regex token without a closing delimiter, or with a body or flags that
\* new RegExp rejects.
MalformedRegex(tok) ==
  /\ tok.isRegex
  /\ \/ splitRegex(tok.pattern) = <<>>
     \/ regExpRejects(splitRegex(tok.pattern)[1], splitRegex(tok.pattern)[2])

\* C10: a malformed regex token makes searchLine return null (the line is
\* excluded) and nothing is thrown.  Violated: a body or flags that new RegExp
\* rejects make searchLine throw.
C10_MalformedRegexExcludes ==
  (pc = "matched" /\ \E k \in 1..Len(parsed) : MalformedRegex(parsed[k]))
    => matched = Null

\* The index of the first occurrence of a token in a line, -1 when there is
\* none: a substring under the case rule of its fragment, a regex (here a
\* literal body) under its flags, i ignoring case and y anchoring at index 0.
FirstIndex(tok, text) ==
  LET parts == splitRegex(tok.pattern)
      body == IF tok.isRegex THEN parts[1] ELSE tok.pattern
      folds == IF tok.isRegex THEN "i" \in {parts[2][k] : k \in 1..Len(parts[2])}
               ELSE ~HasUpper(tok.pattern)
      sticky == tok.isRegex /\ "y" \in {parts[2][k] : k \in 1..Len(parts[2])}
      same(a, b) == IF tok.isRegex /\ folds THEN toLowerChar(a) = toLowerChar(b)
                    ELSE IF folds THEN toLowerChar(a) = b ELSE a = b
      here(i) == /\ \A k \in 1..Len(body) : same(text[i + k], body[k])
                 /\ sticky => i = 0
      at == {i \in 0..(Len(text) - Len(body)) : here(i)}
  IN IF at = {} THEN -1 ELSE CHOOSE i \in at : \A j \in at : i <= j

\* The length a found token records.
FoundLength(tok) ==
  IF tok.isRegex THEN Len(splitRegex(tok.pattern)[1]) ELSE Len(tok.pattern)

\* Every token is satisfied by the line: a regex token has its delimiters, a
\* token that is not negated is found and a negated one is not.
AllSatisfied(tokens, text) ==
  \A k \in 1..Len(tokens) :
    /\ tokens[k].isRegex => splitRegex(tokens[k].pattern) # <<>>
    /\ tokens[k].negate <=> FirstIndex(tokens[k], text) = -1

\* One (start, length) entry per token that is not negated, in token order.
RangesOf(tokens, text) ==
  LET found == SelectSeq(tokens, LAMBDA tok : ~tok.negate)
  IN [j \in 1..Len(found) |-> <<FirstIndex(found[j], text), FoundLength(found[j])>>]

\* The result the claim gives searchLine for a line.
ExpectedMatch(lineIndex, text, tokens) ==
  IF AllSatisfied(tokens, text)
  THEN MatchedRange(lineIndex, RangesOf(tokens, text))
  ELSE Null

\* No token is a regex that new RegExp rejects (the case of C10).
NoneRejected(tokens) ==
  \A k \in 1..Len(tokens) :
    (tokens[k].isRegex /\ splitRegex(tokens[k].pattern) # <<>>)
      => ~regExpRejects(splitRegex(tokens[k].pattern)[1], splitRegex(tokens[k].pattern)[2])

\* C11: searchLine returns a MatchedRange iff every token that is not negated
\* is found and no negated token is found, with one (start, length) range per
\* token that is not negated, in token order, from its first occurrence, and
\* searchDocument collects these results line by line in ascending order.
C11_AllTokensAnded ==
  NoneRejected(parsed)
    => /\ pc = "matched" => matched = ExpectedMatch(0, line, parsed)
       /\ pc = "document"
            => /\ matched.kind = "items"
               /\ \A j \in 1..Len(matched.items) :
                    /\ matched.items[j].line \in 0..(Len(MatchDoc) - 1)
                    /\ matched.items[j]
                         = ExpectedMatch(matched.items[j].line,
                                         MatchDoc[matched.items[j].line + 1], parsed)
                    /\ \A k \in 1..(j - 1) :
                         matched.items[k].line < matched.items[j].line
               /\ \A ln \in 0..(Len(MatchDoc) - 1) :
                    ExpectedMatch(ln, MatchDoc[ln + 1], parsed) # Null
                      => \E j \in 1..Len(matched.items) : matched.items[j].line = ln

\* C11 witness: the tokens I and /i/ on the line iI: the substring is found at
\* 1, the regex at 0, and the ranges follow the token order.
C11_Witness ==
  /\ pc = "matched" /\ line = <<"i", "I">>
  /\ inputStr = <<"I", " ", "/", "i", "/">>
  /\ matched = MatchedRange(0, << <<1, 1>>, <<0, 1>> >>)

\* ---------------------------------------- specification of the tokenizer
\* The characters of a text to tokenize: a letter in both cases, the negation
\* and regex markers, a space and a tab.
TokenAlphabet == {"a", "A", "!", "/", " ", Tab}

InitTokenize ==
  /\ pc = "input"
  /\ inputStr \in StringsUpTo(TokenAlphabet, MaxTokenText)
  /\ line = <<>>
  /\ search = NoSearch /\ parsed = <<>> /\ matched = Idle
  /\ NoSession

NextTokenize == Tokenize

SpecTokenize == InitTokenize /\ [][NextTokenize]_vars

\* The maximal runs of characters of s outside Sep, in order.
Runs(s, Sep) ==
  LET starts == {i \in 1..Len(s) : s[i] \notin Sep /\ (i = 1 \/ s[i - 1] \in Sep)}
      nth(k) == CHOOSE i \in starts : Cardinality({j \in starts : j < i}) = k - 1
      last(i) == CHOOSE j \in i..Len(s) :
                   /\ \A k \in i..j : s[k] \notin Sep
                   /\ j = Len(s) \/ s[j + 1] \in Sep
  IN [k \in 1..Cardinality(starts) |-> SubSeq(s, nth(k), last(nth(k)))]

\* The token the claim gives a fragment.
TokenOf(f) ==
  LET rest == IF f[1] = "!" THEN Tail(f) ELSE f
  IN [pattern       |-> rest,
      isRegex       |-> rest # <<>> /\ rest[1] = "/",
      caseSensitive |-> \E i \in 1..Len(f) : f[i] = "A",
      negate        |-> f[1] = "!"]

\* A fragment without the tabs at its two ends.
Stripped(f) ==
  LET inner == {i \in 1..Len(f) : f[i] # Tab}
  IN IF inner = {} THEN <<>>
     ELSE SubSeq(f, CHOOSE i \in inner : \A j \in inner : i <= j,
                    CHOOSE i \in inner : \A j \in inner : j <= i)

FlattenChildren ==
  { newTree.children,
    [newTree.children EXCEPT ![2] = @ \o <<LeafId(2, 2), LeafId(2, 6)>>,
                             ![3] = @ \o <<LeafId(3, 5)>>] }

\* A tree with any hidden and expanded flags.
InitFlatten ==
  /\ pc = "flags"
  /\ inputStr = <<>> /\ search = NoSearch
  /\ line = <<>> /\ parsed = <<>> /\ matched = Idle
  /\ searchMethod = "text"
  /\ kindOf = LifeKinds
  /\ cursorLine = 0
  /\ hidden \in [SymbolIds -> BOOLEAN]
  /\ expanded \in [SymbolIds -> BOOLEAN]
  /\ isSearchResult = newTree.isSearchResult
  /\ children \in FlattenChildren
  /\ lastSearch = [symbol |-> <<>>, text |-> <<>>]
  /\ value = <<>>
  /\ items = <<>>
  /\ active = 0
  /\ raised = "none"
  /\ disposed = FALSE
  /\ released = 0
  /\ pending = FALSE
  /\ NoExtension

\* _updateItems: the pick list is the flattening of the tree
UpdateItems ==
  /\ pc = "flags"
  /\ pc' = "flattened"
  /\ items' = flattenVisible(tree)
  /\ UNCHANGED <<pureVars, sessionVars, treeVars, lastSearch, value, active, raised,
                 lifeVars, hostVars>>

NextFlatten == UpdateItems

SpecFlatten == InitFlatten /\ [][NextFlatten]_vars

\* An item is shown when it is not hidden and every ancestor of it is both not
\* hidden and expanded; a Match leaf has no hidden flag that is ever set.
Shown(item) ==
  /\ IsLeaf(item) \/ ~hidden[item]
  /\ \A a \in ancestors(item) : ~hidden[a] /\ expanded[a]

\* C24: the flattening is the depth-first preorder of the tree, children in
\* list order, restricted to the items that are shown.
C24_FlattenVisible ==
  pc = "flattened" => items = SelectSeq(allItems(children), Shown)

\* The hidden symbol c under the shown, expanded root a hides its child b,
\* which is not hidden itself, and its leaf; a and its own leaves are listed.
C24_Witness ==
  /\ pc = "flattened"
  /\ ~hidden[2] /\ expanded[2] /\ hidden[3] /\ expanded[3] /\ ~hidden[5]
  /\ children[3] = <<5, LeafId(3, 5)>>
  /\ inList(items, 2) /\ inList(items, LeafId(2, 2))
  /\ ~inList(items, 5) /\ ~inList(items, LeafId(3, 5))

\* ---------------------------------------- specification of the extension
\* The sessions ever constructed, and the calls of one command that await the
\* symbol provider at the same time, stop here.
MaxSessions == 3

MaxRetrieving == 2

\* The context key that setInQuickOutline (symbol) and setInQuickOutlineSearch
\* (text) write.
contextKey(method) ==
  IF method = "symbol" THEN "inQuickOutline" ELSE "inQuickOutlineSearch"

\* A session as the extension and the host see it: its mode, its _disposed
\* flag, and whether the host shows its pick list.
Session(method) == [method |-> method, disposed |-> FALSE, visible |-> TRUE]

InitExtension ==
  /\ pc = "activated"
  /\ inputStr = <<>> /\ search = NoSearch
  /\ line = <<>> /\ parsed = <<>> /\ matched = Idle
  /\ NoSession

\* showOutline / searchTextInFile up to the await: the call for the symbols of
\* the document is under way.
Command(method) ==
  /\ pc # "deactivate"
  /\ retrieving[method] < MaxRetrieving
  /\ retrieving' = [retrieving EXCEPT ![method] = @ + 1]
  /\ pc' = "command"
  /\ UNCHANGED <<pureVars, sessionVars, treeVars, pickVars, lifeVars, pending,
                 context, quickOutline, quickOutlineForTextSearch, sessions, hiding>>

\* showOutline / searchTextInFile from the await on: the context key is set,
\* the session is constructed and stored, and its onHide is set. The
\* constructor shows the pick list; the host shows one pick list at a time, so
\* it hides the one it was showing and owes that session its hide notification.
Resumed(method) ==
  /\ pc # "deactivate"
  /\ retrieving[method] > 0
  /\ Len(sessions) < MaxSessions
  /\ retrieving' = [retrieving EXCEPT ![method] = @ - 1]
  /\ context' = [context EXCEPT ![contextKey(method)] = TRUE]
  /\ sessions' = Append([i \in 1..Len(sessions) |-> [sessions[i] EXCEPT !.visible = FALSE]],
                        Session(method))
  /\ hiding' = hiding \cup {i \in 1..Len(sessions) : sessions[i].visible}
  /\ IF method = "symbol"
     THEN quickOutline' = Len(sessions) + 1 /\ UNCHANGED quickOutlineForTextSearch
     ELSE quickOutlineForTextSearch' = Len(sessions) + 1 /\ UNCHANGED quickOutline
  /\ pc' = "resumed"
  /\ UNCHANGED <<pureVars, sessionVars, treeVars, pickVars, lifeVars, pending>>

\* The host hides the pick list of session i (Escape, focus lost, or the
\* hide() of an accepted item) and owes the session its hide notification.
HostHides(i) ==
  /\ pc # "deactivate"
  /\ i \in 1..Len(sessions)
  /\ sessions[i].visible
  /\ sessions' = [sessions EXCEPT ![i].visible = FALSE]
  /\ hiding' = hiding \cup {i}
  /\ pc' = "hostHides"
  /\ UNCHANGED <<pureVars, sessionVars, treeVars, pickVars, lifeVars, pending,
                 context, quickOutline, quickOutlineForTextSearch, retrieving>>

\* onDidHide of session i: dispose(), then the onHide that its command set,
\* which clears the context key of the session's mode.
HideNotified(i) ==
  /\ pc # "deactivate"
  /\ i \in hiding
  /\ hiding' = hiding \ {i}
  /\ sessions' = [sessions EXCEPT ![i].disposed = TRUE]
  /\ context' = [context EXCEPT ![contextKey(sessions[i].method)] = FALSE]
  /\ pc' = "hideNotified"
  /\ UNCHANGED <<pureVars, sessionVars, treeVars, pickVars, lifeVars, pending,
                 quickOutline, quickOutlineForTextSearch, retrieving>>

\* deactivate(): dispose() on the two stored sessions, which takes their pick
\* lists from the host, and both context keys cleared.
deactivate ==
  /\ pc # "deactivate"
  /\ sessions' = [i \in 1..Len(sessions) |->
                    IF i \in {quickOutline, quickOutlineForTextSearch}
                    THEN [sessions[i] EXCEPT !.disposed = TRUE, !.visible = FALSE]
                    ELSE sessions[i]]
  /\ context' = [inQuickOutline |-> FALSE, inQuickOutlineSearch |-> FALSE]
  /\ pc' = "deactivate"
  /\ UNCHANGED <<pureVars, sessionVars, treeVars, pickVars, lifeVars, pending,
                 quickOutline, quickOutlineForTextSearch, retrieving, hiding>>

NextExtension ==
  \/ \E method \in {"symbol", "text"} : Command(method)
  \/ \E method \in {"symbol", "text"} : Resumed(method)
  \/ \E i \in 1..MaxSessions : HostHides(i)
  \/ \E i \in 1..MaxSessions : HideNotified(i)
  \/ deactivate

SpecExtension == InitExtension /\ [][NextExtension]_vars

\* C36: whenever the pick list of a session is open and the session is not
\* disposed, the context key of its mode is true: inQuickOutline for a symbol
\* session, inQuickOutlineSearch for a text session.
C36_ContextFollowsSessions ==
  \A i \in 1..Len(sessions) :
    (sessions[i].visible /\ ~sessions[i].disposed)
      => context[contextKey(sessions[i].method)]
====
